---- MODULE Spec2Model ----
\* Verification model of the canaryweather live-weather pipeline and station
\* resolver (src/src/services/weatherService.ts).
EXTENDS Integers, Sequences, FiniteSets, TLC

\* ───────────────────────── bounds of the model ─────────────────────────────
\* number of clock advances explored
MaxTicks == 2
\* largest catalog explored by the resolver specification
MaxStations == 3
\* largest count passed to findNearestStations
MaxCount == 3
\* longest list of distances handed to calculateDistanceWeights
MaxDistances == 3
\* calls of trackSearchEvent in one run, and how many of them wait for the
\* session id at the same time
MaxEvents == 11
MaxTracking == 2
\* fetchLiveWeather calls of one result screen, and the 5-minute periods it
\* stays mounted
MaxFetches == 5
MaxPeriods == 4

\* ───────────────────────── program constants ──────────────────────────────
CACHE_EXPIRY_MS == 24 * 60 * 60 * 1000
RATE_LIMIT_MS == 15 * 60 * 1000
HIGH_ALT_FALLBACK_RATIO == 3
REGULAR_STATION_MAX_KM == 40

\* ───────────────────────── JavaScript values ──────────────────────────────
\* A JS value is a record [t, n, s]; numbers are kept in tenths (21.4 is 214).
Num(n) == [t |-> "number", n |-> n, s |-> ""]
Whole(k) == Num(k * 10)
NaN == [t |-> "NaN", n |-> 0, s |-> ""]
Undefined == [t |-> "undefined", n |-> 0, s |-> ""]
Null == [t |-> "null", n |-> 0, s |-> ""]
Str(x) == [t |-> "string", n |-> 0, s |-> x]

\* typeof v
TypeOf(v) ==
  CASE v.t \in {"number", "NaN"} -> "number"
    [] v.t = "null" -> "object"
    [] OTHER -> v.t

\* Math.round(v): floor(v + 0.5) on numbers, 0 on null, NaN on undefined/NaN/text
MathRound(v) ==
  CASE v.t = "number" -> Num(((v.n + 5) \div 10) * 10)
    [] v.t = "null" -> Num(0)
    [] OTHER -> NaN

\* v > k as JavaScript evaluates it for the values the sources deliver
JsGt(v, k) == v.t = "number" /\ v.n > k * 10
\* v < k
JsLt(v, k) == (v.t = "number" /\ v.n < k * 10) \/ (v.t = "null" /\ 0 < k)

\* JSON.parse(JSON.stringify(..)) of one property value: NaN is written as null,
\* an undefined property is dropped and reads back as undefined
JsonValue(v) == IF v.t = "NaN" THEN Null ELSE v

\* ───────────────────────── Live Weather Snapshot ──────────────────────────
MkSnapshot(te, hu, wi, co, cond, label, ts) ==
  [temperature |-> te, humidity |-> hu, windSpeed |-> wi, weatherCode |-> co,
   condition |-> cond, conditionLabelKey |-> label, timestamp |-> ts]

\* placeholder carried where the code holds null
NoData == MkSnapshot(Undefined, Undefined, Undefined, Undefined, Undefined, Undefined, Undefined)

\* JSON.parse(JSON.stringify(data)) of a snapshot
JsonSnapshot(d) ==
  MkSnapshot(JsonValue(d.temperature), JsonValue(d.humidity), JsonValue(d.windSpeed),
             JsonValue(d.weatherCode), JsonValue(d.condition),
             JsonValue(d.conditionLabelKey), JsonValue(d.timestamp))

\* ───────────────────────── condition mapping ──────────────────────────────
Mapping(c, l) == [condition |-> c, labelKey |-> l]

\* codes listed in WMO_CODE_MAP
WmoCodes == {0, 1, 2, 3, 45, 48, 51, 53, 55, 56, 57, 61, 63, 65, 66, 67,
             71, 73, 75, 77, 80, 81, 82, 85, 86, 95, 96, 99}

WMO_CODE_MAP(c) ==
  CASE c = 0 -> Mapping("sunny", "clearSky")
    [] c = 1 -> Mapping("sunny", "mainlyClear")
    [] c = 2 -> Mapping("partly-sunny", "partlyCloudy")
    [] c = 3 -> Mapping("cloudy", "overcast")
    [] c = 45 -> Mapping("foggy", "fog")
    [] c = 48 -> Mapping("foggy", "rimeFog")
    [] c = 51 -> Mapping("rainy", "lightDrizzle")
    [] c = 53 -> Mapping("rainy", "drizzle")
    [] c = 55 -> Mapping("rainy", "denseDrizzle")
    [] c = 56 -> Mapping("rainy", "freezingDrizzle")
    [] c = 57 -> Mapping("rainy", "denseFreezingDrizzle")
    [] c = 61 -> Mapping("rainy", "lightRain")
    [] c = 63 -> Mapping("rainy", "rain")
    [] c = 65 -> Mapping("rainy", "heavyRain")
    [] c = 66 -> Mapping("rainy", "freezingRain")
    [] c = 67 -> Mapping("rainy", "heavyFreezingRain")
    [] c = 71 -> Mapping("snowy", "lightSnow")
    [] c = 73 -> Mapping("snowy", "snow")
    [] c = 75 -> Mapping("snowy", "heavySnow")
    [] c = 77 -> Mapping("snowy", "snowGrains")
    [] c \in {80, 81} -> Mapping("rainy", "showers")
    [] c = 82 -> Mapping("rainy", "violentShowers")
    [] c = 85 -> Mapping("snowy", "snowShowers")
    [] c = 86 -> Mapping("snowy", "heavySnowShowers")
    [] c = 95 -> Mapping("stormy", "thunderstorm")
    [] c = 96 -> Mapping("stormy", "thunderstormHail")
    [] c = 99 -> Mapping("stormy", "severeThunderstorm")

\* mapWmoCode(code, isNight); code is a JS value
mapWmoCode(code, isNight) ==
  LET mapping == IF code.t = "number" /\ code.n % 10 = 0 /\ (code.n \div 10) \in WmoCodes
                 THEN WMO_CODE_MAP(code.n \div 10)
                 ELSE Mapping("cloudy", "unknown")
  IN IF isNight /\ mapping.condition = "sunny" THEN Mapping("clear-night", "clearNight")
     ELSE IF isNight /\ mapping.condition = "partly-sunny"
          THEN Mapping("partly-cloudy-night", "partlyCloudyNight")
     ELSE mapping

\* ───────────────────────── primary source (AEMET) ─────────────────────────
\* an observation of the second response; fields are JS values
Observation(ta, hr, vv, prec, vis, fint) ==
  [ta |-> ta, hr |-> hr, vv |-> vv, prec |-> prec, vis |-> vis, fint |-> fint]

\* observations the model lets the primary source deliver
AemetObservations ==
  { Observation(Num(214), Num(650), Num(123), Num(0), Num(100), Str("fint")),
    Observation(Undefined, Num(930), Num(76), Num(62), Undefined, Str("fint")) }

\* the mapping of the latest observation to a snapshot in fetchAemetLiveWeather
AemetSnapshot(latest, isNight) ==
  LET rain == latest.prec.t # "undefined" /\ JsGt(latest.prec, 0)
      fog == latest.vis.t # "undefined" /\ JsLt(latest.vis, 1)
      overcast == latest.hr.t # "undefined" /\ JsGt(latest.hr, 90)
      partly == latest.hr.t # "undefined" /\ JsGt(latest.hr, 70)
      condition ==
        IF rain THEN "rainy" ELSE IF fog THEN "foggy" ELSE IF overcast THEN "cloudy"
        ELSE IF partly THEN (IF isNight THEN "partly-cloudy-night" ELSE "partly-sunny")
        ELSE (IF isNight THEN "clear-night" ELSE "sunny")
      labelKey ==
        IF rain THEN (IF JsGt(latest.prec, 5) THEN "heavyRain" ELSE "lightRain")
        ELSE IF fog THEN "fog" ELSE IF overcast THEN "overcast"
        ELSE IF partly THEN (IF isNight THEN "partlyCloudyNight" ELSE "partlyCloudy")
        ELSE (IF isNight THEN "clearNight" ELSE "clearSky")
      weatherCode ==
        IF rain THEN (IF JsGt(latest.prec, 5) THEN 65 ELSE 61)
        ELSE IF fog THEN 45 ELSE IF overcast THEN 3 ELSE IF partly THEN 2 ELSE 0
  IN MkSnapshot(IF latest.ta.t # "undefined" THEN MathRound(latest.ta) ELSE Whole(0),
                IF latest.hr.t # "undefined" THEN MathRound(latest.hr) ELSE Whole(0),
                IF latest.vv.t # "undefined" THEN MathRound(latest.vv) ELSE Whole(0),
                Whole(weatherCode), Str(condition), Str(labelKey), latest.fint)

\* ───────────────────────── fallback source (Open-Meteo) ───────────────────
Current(time, te, hu, co, wi) ==
  [time |-> time, temperature_2m |-> te, relative_humidity_2m |-> hu,
   weather_code |-> co, wind_speed_10m |-> wi]

\* `current` objects the model lets the fallback source deliver
OpenMeteoCurrents ==
  { Current(Str("time"), Num(236), Num(580), Whole(1), Num(148)),
    Current(Str("time"), Undefined, Num(580), Whole(61), Num(148)),
    Current(Undefined, Num(187), Num(810), Whole(3), Num(92)) }

\* the mapping of data.current to a snapshot in fetchLiveWeather
OpenMeteoSnapshot(current, isNight) ==
  LET m == mapWmoCode(current.weather_code, isNight)
  IN MkSnapshot(MathRound(current.temperature_2m), MathRound(current.relative_humidity_2m),
                MathRound(current.wind_speed_10m), current.weather_code,
                Str(m.condition), Str(m.labelKey), current.time)

\* ───────────────────────── mock data ──────────────────────────────────────
MOCK_WEATHER_DATA ==
  << MkSnapshot(Whole(24), Whole(65), Whole(12), Whole(0), Str("sunny"), Str("clearSky"), Str("now")),
     MkSnapshot(Whole(22), Whole(70), Whole(18), Whole(1), Str("sunny"), Str("mainlyClear"), Str("now")),
     MkSnapshot(Whole(20), Whole(75), Whole(15), Whole(2), Str("partly-sunny"), Str("partlyCloudy"), Str("now")),
     MkSnapshot(Whole(19), Whole(80), Whole(20), Whole(3), Str("cloudy"), Str("overcast"), Str("now")),
     MkSnapshot(Whole(18), Whole(85), Whole(25), Whole(61), Str("rainy"), Str("lightRain"), Str("now")) >>

\* getMockWeatherData() for the random index drawn
getMockWeatherData(randomIndex) == MOCK_WEATHER_DATA[randomIndex]

\* ───────────────────────── state ──────────────────────────────────────────
VARIABLES
  now,            \* Date.now(), in milliseconds
  ticks,          \* clock advances made so far
  DEV,            \* the build flag __DEV__
  AEMET_API_KEY,  \* TRUE when EXPO_PUBLIC_AEMET_API_KEY is a non-empty string
  inMemoryCache,  \* tier 1: station id -> { data, timestamp }
  asyncStorage,   \* tier 2: station id -> the parsed JSON text stored under weather_cache_<id>
  pc,             \* position of the fetchLiveWeather execution
  req,            \* its arguments
  stages,         \* the stages the execution has entered, in order
  pending,        \* the snapshot handed to saveWeatherToCache and the entry timestamp
  result,         \* what the execution returned
  stations,       \* the station catalog, in iteration order of locationsMapping.stations
  point,          \* the query point (its latitude, in metres of arc along the meridian)
  call,           \* the resolver operation last called and its arguments
  nearest,        \* what findNearestStation returned
  nearestList,    \* what findNearestStations returned
  distances,      \* the argument of calculateDistanceWeights, in tenths of a kilometre
  weights,        \* what calculateDistanceWeights returned
  iop,            \* the interpolating operation called: fetchInterpolatedWeather or calculateInterpolatedSunChance
  ipc,            \* position of that execution
  queried,        \* the stations it issued a query for, in the order of the promises
  results,        \* per query: has it settled, and with what
  completed,      \* the queries in the order in which their promises settled
  interpolated,   \* what fetchInterpolatedWeather returned
  interpolatedSun, \* what calculateInterpolatedSunChance returned
  weather_data,   \* the rows the historical store holds for the station
  isNorthern,     \* the station's isNorthern flag
  cpc,            \* position of the climatology execution
  cargs,          \* month, dayStart and dayEnd of the calculateSunChance call
  sunResult,      \* what calculateSunChance returned
  weeklyData,     \* the weekly aggregates of getBestWeeksForStation
  bestWeeks,      \* what getBestWeeksForStation returned
  rpc,            \* position of the fetchPeriodData execution of the batch fetcher
  retryCount,     \* its retryCount argument
  attempts,       \* the attempts made for the period: the wait before each and the error before it
  fetchResult,    \* the FetchResult returned for the period
  allData,        \* the records handed to interpolateMissingTemperatures
  interpolatedData, \* the records it returned
  eventQueue,     \* analytics: the queued events, oldest first
  flushTimer,     \* analytics: "null", or the handle of a timer that is "pending" or "spent"
  tracking,       \* how many calls of trackSearchEvent await the session id
  inserting,      \* how many flushes await the insert of their batch
  tracked,        \* how many calls of trackSearchEvent were made
  pushed,         \* how many events were pushed; an event is named by its number
  handed,         \* for each event, how many batches it was handed to
  mounted,        \* result screen: mounted with its station
  period,         \* result screen: 5-minute periods since the mount
  calls,          \* result screen: fetchLiveWeather calls made so far, numbered in order
  inFlight,       \* result screen: the calls that wait for the network
  rateLimit,      \* the tier-1 entry of the station: the call that wrote it and when
  stage,          \* lifecycle of one fetchLiveWeather call: the await it is suspended at
  streaming,      \* the build's fetch resolves at the headers and reads the body afterwards
  timeoutId,      \* the abort timer of the current request is armed
  elapsed,        \* milliseconds since the current network attempt started
  callFlags,      \* forceRefresh, __DEV__ and the presence of the AEMET key for the call
  returned        \* what the call returned

pipelineVars == <<now, ticks, DEV, AEMET_API_KEY, inMemoryCache, asyncStorage,
                  pc, req, stages, pending, result>>

resolverVars == <<stations, point, call, nearest, nearestList>>

weightVars == <<distances, weights>>

interpVars == <<iop, ipc, queried, results, completed, interpolated, interpolatedSun>>

climateVars == <<weather_data, isNorthern, cpc, cargs, sunResult, weeklyData, bestWeeks>>

retryVars == <<rpc, retryCount, attempts, fetchResult>>

\* the further components
seriesVars == <<allData, interpolatedData>>
analyticsVars == <<eventQueue, flushTimer, tracking, inserting, tracked, pushed, handed>>
screenVars == <<mounted, period, calls, inFlight, rateLimit>>
attemptVars == <<stage, streaming, timeoutId, elapsed, callFlags, returned>>
auxVars == <<retryVars, seriesVars, analyticsVars, screenVars, attemptVars>>

\* what the actions of one component leave alone
nonPipelineVars == <<resolverVars, weightVars, interpVars, climateVars, auxVars>>
nonResolverVars == <<pipelineVars, weightVars, interpVars, climateVars, auxVars>>
nonWeightVars == <<pipelineVars, resolverVars, interpVars, climateVars, auxVars>>
nonInterpVars == <<pipelineVars, weightVars, climateVars, auxVars>>
nonClimateVars == <<pipelineVars, resolverVars, weightVars, interpVars, auxVars>>
serviceVars == <<pipelineVars, resolverVars, weightVars, interpVars, climateVars>>
nonRetryVars == <<serviceVars, seriesVars, analyticsVars, screenVars, attemptVars>>
nonSeriesVars == <<serviceVars, retryVars, analyticsVars, screenVars, attemptVars>>
nonAnalyticsVars == <<serviceVars, retryVars, seriesVars, screenVars, attemptVars>>
nonScreenVars == <<serviceVars, retryVars, seriesVars, analyticsVars, attemptVars>>
nonAttemptVars == <<serviceVars, retryVars, seriesVars, analyticsVars, screenVars>>

vars == <<serviceVars, auxVars>>

\* station ids the cache tiers hold entries for; the pipeline is called with the
\* station of one screen, "" standing for an omitted station id
Stations == {"C430E", "C449C"}
\* the station the screen under study shows
Requested == {"C430E"}
StationArgs == Requested \cup {""}

\* clock advances: one second, the tier-1 window, the tier-2 window
ClockSteps == {1000, RATE_LIMIT_MS, CACHE_EXPIRY_MS}

\* the clock starts at 06:59:59, one second before isNightTime turns false
StartTimes == {7 * 3600000 - 1000}

NoEntry == [present |-> FALSE, data |-> NoData, timestamp |-> 0]
NoItem == [present |-> FALSE, data |-> NoData, timestamp |-> 0, stationId |-> ""]
NoPending == [data |-> NoData, timestamp |-> 0]

NoResult == [kind |-> "pending", data |-> NoData, isFromCache |-> FALSE]
ReturnNull == [kind |-> "null", data |-> NoData, isFromCache |-> FALSE]
ReturnData(d, fromCache) == [kind |-> "data", data |-> d, isFromCache |-> fromCache]

InitPipeline ==
  /\ now \in StartTimes
  /\ ticks = 0
  /\ DEV \in BOOLEAN
  /\ AEMET_API_KEY \in BOOLEAN
  /\ inMemoryCache = [s \in Stations |-> NoEntry]
  /\ asyncStorage = [s \in Stations |-> NoItem]
  /\ pc = "idle"
  /\ req = [stationId |-> "", forceRefresh |-> FALSE]
  /\ stages = << >>
  /\ pending = NoPending
  /\ result = NoResult

\* isNightTime(): the hour of the clock is >= 20 or < 7
isNightTime(t) ==
  LET hour == (t \div 3600000) % 24
  IN hour >= 20 \/ hour < 7

\* ───────────────────────── tier 1 ─────────────────────────────────────────
\* getFromRateLimitCache with the window taken in seconds instead of milliseconds
getFromRateLimitCache_WindowInSeconds(cache, stationId, t) ==
  IF ~cache[stationId].present THEN [hit |-> FALSE, data |-> NoData, cache |-> cache]
  ELSE IF t - cache[stationId].timestamp > 15 * 60
       THEN [hit |-> FALSE, data |-> NoData, cache |-> [cache EXCEPT ![stationId] = NoEntry]]
  ELSE [hit |-> TRUE, data |-> cache[stationId].data, cache |-> cache]

\* getFromRateLimitCache: the value returned and the map afterwards
getFromRateLimitCache(cache, stationId, t) ==
  IF ~cache[stationId].present THEN [hit |-> FALSE, data |-> NoData, cache |-> cache]
  ELSE IF t - cache[stationId].timestamp > RATE_LIMIT_MS
       THEN [hit |-> FALSE, data |-> NoData, cache |-> [cache EXCEPT ![stationId] = NoEntry]]
  ELSE [hit |-> TRUE, data |-> cache[stationId].data, cache |-> cache]

\* saveToRateLimitCache that stores nothing
saveToRateLimitCache_Dropped(cache, stationId, data, t) == cache

saveToRateLimitCache(cache, stationId, data, t) ==
  [cache EXCEPT ![stationId] = [present |-> TRUE, data |-> data, timestamp |-> t]]

\* ───────────────────────── tier 2 ─────────────────────────────────────────
\* saveWeatherToCache: the store after setItem settled; a rejected setItem is swallowed
saveWeatherToCache(store, stationId, data, t, setItemFails) ==
  IF setItemFails THEN store
  ELSE [store EXCEPT ![stationId] =
          [present |-> TRUE, data |-> JsonSnapshot(data), timestamp |-> t,
           stationId |-> stationId]]

\* the type checks of getWeatherFromCache on the parsed data
ValidStructure(data) ==
  /\ TypeOf(data.temperature) = "number"
  /\ TypeOf(data.humidity) = "number"
  /\ TypeOf(data.windSpeed) = "number"
  /\ TypeOf(data.weatherCode) = "number"
  /\ TypeOf(data.condition) = "string"
  /\ TypeOf(data.conditionLabelKey) = "string"

\* getWeatherFromCache without the test of the entry's age
getWeatherFromCache_NoExpiry(store, stationId, t, getItemFails, removeItemFails) ==
  LET cacheEntry == store[stationId]
      miss == [hit |-> FALSE, data |-> NoData, store |-> store]
  IN IF getItemFails \/ ~cacheEntry.present THEN miss
     ELSE IF cacheEntry.timestamp = 0 \/ cacheEntry.stationId = "" THEN miss
     ELSE IF ~ValidStructure(cacheEntry.data) THEN miss
     ELSE [hit |-> TRUE, data |-> cacheEntry.data, store |-> store]

\* getWeatherFromCache: the value returned and the store afterwards
getWeatherFromCache(store, stationId, t, getItemFails, removeItemFails) ==
  LET cacheEntry == store[stationId]
      miss == [hit |-> FALSE, data |-> NoData, store |-> store]
  IN IF getItemFails \/ ~cacheEntry.present THEN miss
     ELSE IF cacheEntry.timestamp = 0 \/ cacheEntry.stationId = "" THEN miss
     ELSE IF t - cacheEntry.timestamp > CACHE_EXPIRY_MS
          THEN IF removeItemFails THEN miss
               ELSE [hit |-> FALSE, data |-> NoData,
                     store |-> [store EXCEPT ![stationId] = NoItem]]
     ELSE IF ~ValidStructure(cacheEntry.data) THEN miss
     ELSE [hit |-> TRUE, data |-> cacheEntry.data, store |-> store]

\* ───────────────────────── fetchLiveWeather ───────────────────────────────
\* the terminal stage handing out mock data in every build
TerminalResult_AlwaysMock(randomIndex) ==
  ReturnData(getMockWeatherData(randomIndex), FALSE)

\* the value of the terminal stage: mock data in a development build, else null
TerminalResult(randomIndex) ==
  IF DEV THEN ReturnData(getMockWeatherData(randomIndex), FALSE) ELSE ReturnNull

\* does the execution try the primary source
TriesPrimary(stationId) == stationId # "" /\ AEMET_API_KEY

\* the rate-limit cache consulted also on a forced refresh
ChecksRateLimit_IgnoresForce(stationId, forceRefresh) == stationId # ""

\* is the rate-limit cache consulted on entry
ChecksRateLimit(stationId, forceRefresh) == stationId # "" /\ ~forceRefresh

\* the persistent cache read also on a forced refresh
ReadsPersistentCache_IgnoresForce(stationId, forceRefresh) == stationId # ""

\* is the persistent cache read after the fallback source failed
ReadsPersistentCache(stationId, forceRefresh) == stationId # "" /\ ~forceRefresh

\* Entry of fetchLiveWeather up to its first await: the rate-limit check, then
\* the request to the primary source or, when that is skipped, to the fallback.
Call(stationId, forceRefresh) ==
  /\ UNCHANGED nonPipelineVars
  /\ pc \in {"idle", "done"}
  /\ req' = [stationId |-> stationId, forceRefresh |-> forceRefresh]
  /\ pending' = NoPending
  /\ LET checked == ChecksRateLimit(stationId, forceRefresh)
         rl == IF checked THEN getFromRateLimitCache(inMemoryCache, stationId, now)
               ELSE [hit |-> FALSE, data |-> NoData, cache |-> inMemoryCache]
         seen == IF checked THEN <<"rateLimit">> ELSE << >>
     IN /\ inMemoryCache' = rl.cache
        /\ IF rl.hit
           THEN /\ result' = ReturnData(rl.data, TRUE)
                /\ stages' = seen
                /\ pc' = "done"
           ELSE /\ result' = NoResult
                /\ IF TriesPrimary(stationId)
                   THEN stages' = seen \o <<"primary">> /\ pc' = "aemetMeta"
                   ELSE stages' = seen \o <<"fallback">> /\ pc' = "openMeteo"
  /\ UNCHANGED <<now, ticks, DEV, AEMET_API_KEY, asyncStorage>>

\* a failed primary source leading straight to the persistent cache
PrimaryFailed_SkipsFallback ==
  /\ stages' = stages \o <<"persistentCache">>
  /\ pc' = "readingCache"
  /\ UNCHANGED <<now, ticks, DEV, AEMET_API_KEY, inMemoryCache, asyncStorage,
                 req, pending, result>>

\* fetchAemetLiveWeather returned null: fetchLiveWeather issues the fallback request
PrimaryFailed ==
  /\ stages' = stages \o <<"fallback">>
  /\ pc' = "openMeteo"
  /\ UNCHANGED <<now, ticks, DEV, AEMET_API_KEY, inMemoryCache, asyncStorage,
                 req, pending, result>>

\* a source delivered weatherData for a request with a station id:
\* saveWeatherToCache builds the entry and calls setItem
StartSave(data) ==
  /\ pending' = [data |-> data, timestamp |-> now]
  /\ pc' = "saving"
  /\ UNCHANGED <<now, ticks, DEV, AEMET_API_KEY, inMemoryCache, asyncStorage,
                 req, stages, result>>

\* first request of the primary protocol settles (response and its JSON body)
AemetMetaSettles(outcome) ==
  /\ UNCHANGED nonPipelineVars
  /\ pc = "aemetMeta"
  /\ IF outcome = "ok"
     THEN /\ pc' = "aemetData"
          /\ UNCHANGED <<now, ticks, DEV, AEMET_API_KEY, inMemoryCache, asyncStorage,
                         req, stages, pending, result>>
     ELSE PrimaryFailed

\* second request of the primary protocol settles
AemetDataSettles(outcome, latest) ==
  /\ UNCHANGED nonPipelineVars
  /\ pc = "aemetData"
  /\ IF outcome = "observations"
     THEN StartSave(AemetSnapshot(latest, isNightTime(now)))
     ELSE PrimaryFailed

\* the fallback request settles
OpenMeteoSettles(outcome, current, randomIndex) ==
  /\ UNCHANGED nonPipelineVars
  /\ pc = "openMeteo"
  /\ IF outcome = "current"
     THEN LET weatherData == OpenMeteoSnapshot(current, isNightTime(now))
          IN IF req.stationId # ""
             THEN StartSave(weatherData)
             ELSE /\ result' = ReturnData(weatherData, FALSE)
                  /\ pc' = "done"
                  /\ UNCHANGED <<now, ticks, DEV, AEMET_API_KEY, inMemoryCache,
                                 asyncStorage, req, stages, pending>>
     ELSE IF ReadsPersistentCache(req.stationId, req.forceRefresh)
          THEN /\ stages' = stages \o <<"persistentCache">>
               /\ pc' = "readingCache"
               /\ UNCHANGED <<now, ticks, DEV, AEMET_API_KEY, inMemoryCache,
                              asyncStorage, req, pending, result>>
          ELSE /\ stages' = stages \o <<"terminal">>
               /\ result' = TerminalResult(randomIndex)
               /\ pc' = "done"
               /\ UNCHANGED <<now, ticks, DEV, AEMET_API_KEY, inMemoryCache,
                              asyncStorage, req, pending>>

\* setItem settles: saveWeatherToCache returns, saveToRateLimitCache runs and
\* fetchLiveWeather returns the fresh snapshot
SaveSettles(setItemFails) ==
  /\ UNCHANGED nonPipelineVars
  /\ pc = "saving"
  /\ asyncStorage' = saveWeatherToCache(asyncStorage, req.stationId, pending.data,
                                        pending.timestamp, setItemFails)
  /\ inMemoryCache' = saveToRateLimitCache(inMemoryCache, req.stationId, pending.data, now)
  /\ result' = ReturnData(pending.data, FALSE)
  /\ pending' = NoPending
  /\ pc' = "done"
  /\ UNCHANGED <<now, ticks, DEV, AEMET_API_KEY, req, stages>>

\* getWeatherFromCache settles: a hit is returned tagged from cache, a miss
\* leads to the terminal stage
CacheReadSettles(getItemFails, removeItemFails, randomIndex) ==
  /\ UNCHANGED nonPipelineVars
  /\ pc = "readingCache"
  /\ LET r == getWeatherFromCache(asyncStorage, req.stationId, now,
                                  getItemFails, removeItemFails)
     IN /\ asyncStorage' = r.store
        /\ IF r.hit
           THEN result' = ReturnData(r.data, TRUE) /\ stages' = stages
           ELSE result' = TerminalResult(randomIndex)
                /\ stages' = stages \o <<"terminal">>
  /\ pc' = "done"
  /\ UNCHANGED <<now, ticks, DEV, AEMET_API_KEY, inMemoryCache, req, pending>>

\* time passes
Tick(d) ==
  /\ UNCHANGED nonPipelineVars
  /\ ticks < MaxTicks
  /\ now' = now + d
  /\ ticks' = ticks + 1
  /\ UNCHANGED <<DEV, AEMET_API_KEY, inMemoryCache, asyncStorage, pc, req, stages,
                 pending, result>>

MetaOutcomes == {"ok", "throw", "notOk", "noDatos"}
DataOutcomes == {"observations", "throw", "notOk", "empty"}
OpenMeteoOutcomes == {"current", "throw", "notOk", "noCurrent"}
MockIndexes == 1..Len(MOCK_WEATHER_DATA)

NextPipeline ==
  \/ \E stationId \in StationArgs, forceRefresh \in BOOLEAN : Call(stationId, forceRefresh)
  \/ \E outcome \in MetaOutcomes : AemetMetaSettles(outcome)
  \/ \E outcome \in DataOutcomes, latest \in AemetObservations :
       AemetDataSettles(outcome, latest)
  \/ \E outcome \in OpenMeteoOutcomes, current \in OpenMeteoCurrents,
        randomIndex \in MockIndexes :
       OpenMeteoSettles(outcome, current, randomIndex)
  \/ \E setItemFails \in BOOLEAN : SaveSettles(setItemFails)
  \/ \E getItemFails \in BOOLEAN, removeItemFails \in BOOLEAN, randomIndex \in MockIndexes :
       CacheReadSettles(getItemFails, removeItemFails, randomIndex)
  \/ \E d \in ClockSteps : Tick(d)


\* ───────────────────────── station resolver ───────────────────────────────
\* The catalog and the query point lie on one meridian, where the haversine
\* formula reduces to R * |dLat|; latitudes are kept in metres of arc, so the
\* distance in metres is the difference of the latitudes.
haversineDistance(lat1, lat2) == IF lat1 >= lat2 THEN lat1 - lat2 ELSE lat2 - lat1

\* Math.round(km * 100) / 100 of a distance kept in metres
Round2(d) == ((d + 5) \div 10) * 10
\* Math.round(km * 10) / 10 of a distance kept in metres
Round1(d) == ((d + 50) \div 100) * 100

\* latitudes the model places stations at, and the query points
Latitudes == {-4040, 4010, 12030, 40000, 130000}
QueryPoints == {0, 1000}

\* catalogs of up to MaxStations stations; a station's id is its key
Catalogs ==
  UNION { { [i \in 1..n |-> [id |-> i, isHighAltitude |-> f[i].isHighAltitude,
                             latitude |-> f[i].latitude]] :
            f \in [1..n -> [isHighAltitude : BOOLEAN, latitude : Latitudes]] } :
          n \in 0..MaxStations }

NoCandidate == [found |-> FALSE, id |-> 0, distance |-> 0]
NoNearest == [found |-> FALSE, stationId |-> 0, distance |-> 0,
              isHighAltitude |-> FALSE, isHighAltitudeFallback |-> FALSE]
NoCall == [op |-> "none", excludeHighAltitude |-> FALSE, forceHighAltitude |-> FALSE,
           count |-> 0]

\* the scan of findNearestStation: nearest station of each class, the first
\* one met winning among equals
RECURSIVE ScanNearest(_, _, _, _)
ScanNearest(catalog, lat, i, acc) ==
  IF i > Len(catalog) THEN acc
  ELSE LET station == catalog[i]
           distance == haversineDistance(lat, station.latitude)
           here == [found |-> TRUE, id |-> station.id, distance |-> distance]
       IN IF station.isHighAltitude
          THEN ScanNearest(catalog, lat, i + 1,
                 IF ~acc.high.found \/ distance < acc.high.distance
                 THEN [acc EXCEPT !.high = here] ELSE acc)
          ELSE ScanNearest(catalog, lat, i + 1,
                 IF ~acc.regular.found \/ distance < acc.regular.distance
                 THEN [acc EXCEPT !.regular = here] ELSE acc)

\* the object findNearestStation returns for a tracked candidate
Resolved(catalog, candidate, fallback) ==
  [found |-> TRUE, stationId |-> candidate.id, distance |-> Round2(candidate.distance),
   isHighAltitude |-> catalog[candidate.id].isHighAltitude,
   isHighAltitudeFallback |-> fallback]

\* the fallback test without the 40 km limit on the regular station
shouldFallback_NoMaxKm(nearestHighAltitude, nearestRegular) ==
  /\ nearestHighAltitude.found
  /\ nearestRegular.found
  /\ nearestHighAltitude.distance > nearestRegular.distance * HIGH_ALT_FALLBACK_RATIO

\* the fallback test of the forceHighAltitude branch
shouldFallback(nearestHighAltitude, nearestRegular) ==
  /\ nearestHighAltitude.found
  /\ nearestRegular.found
  /\ nearestRegular.distance < REGULAR_STATION_MAX_KM * 1000
  /\ nearestHighAltitude.distance > nearestRegular.distance * HIGH_ALT_FALLBACK_RATIO

\* the forceHighAltitude branch
ForcedChoice(catalog, nearestHighAltitude, nearestRegular) ==
  IF nearestHighAltitude.found /\ ~shouldFallback(nearestHighAltitude, nearestRegular)
  THEN Resolved(catalog, nearestHighAltitude, FALSE)
  ELSE IF nearestRegular.found THEN Resolved(catalog, nearestRegular, TRUE)
  ELSE NoNearest

\* the default branches without the exclusion of high-altitude stations
DefaultChoice_IgnoresExclude(catalog, nearestHighAltitude, nearestRegular, excludeHighAltitude) ==
  LET either ==
        IF nearestRegular.found /\ nearestHighAltitude.found
        THEN (IF nearestRegular.distance < nearestHighAltitude.distance
              THEN nearestRegular ELSE nearestHighAltitude)
        ELSE IF nearestRegular.found THEN nearestRegular ELSE nearestHighAltitude
  IN IF either.found THEN Resolved(catalog, either, FALSE) ELSE NoNearest

\* the branches taken without forceHighAltitude
DefaultChoice(catalog, nearestHighAltitude, nearestRegular, excludeHighAltitude) ==
  LET either ==
        IF nearestRegular.found /\ nearestHighAltitude.found
        THEN (IF nearestRegular.distance < nearestHighAltitude.distance
              THEN nearestRegular ELSE nearestHighAltitude)
        ELSE IF nearestRegular.found THEN nearestRegular ELSE nearestHighAltitude
  IN IF excludeHighAltitude /\ nearestRegular.found
     THEN Resolved(catalog, nearestRegular, FALSE)
     ELSE IF either.found THEN Resolved(catalog, either, FALSE)
     ELSE NoNearest

findNearestStation(catalog, lat, excludeHighAltitude, forceHighAltitude) ==
  LET scan == ScanNearest(catalog, lat, 1, [high |-> NoCandidate, regular |-> NoCandidate])
  IN IF forceHighAltitude
     THEN ForcedChoice(catalog, scan.high, scan.regular)
     ELSE DefaultChoice(catalog, scan.high, scan.regular, excludeHighAltitude)

\* the filter and map of findNearestStations
RECURSIVE WithDistance(_, _, _, _)
WithDistance(catalog, lat, excludeHighAltitude, i) ==
  IF i > Len(catalog) THEN << >>
  ELSE LET station == catalog[i]
           rest == WithDistance(catalog, lat, excludeHighAltitude, i + 1)
       IN IF ~excludeHighAltitude \/ ~station.isHighAltitude
          THEN << [stationId |-> station.id,
                   distance |-> Round1(haversineDistance(lat, station.latitude)),
                   latitude |-> station.latitude] >> \o rest
          ELSE rest

\* Array.prototype.sort((a, b) => a.distance - b.distance): a stable sort
RECURSIVE InsertByDistance(_, _)
InsertByDistance(sorted, e) ==
  IF sorted = << >> THEN << e >>
  ELSE IF e.distance < Head(sorted).distance THEN << e >> \o sorted
  ELSE << Head(sorted) >> \o InsertByDistance(Tail(sorted), e)

RECURSIVE SortByDistance(_)
SortByDistance(list) ==
  IF list = << >> THEN << >>
  ELSE InsertByDistance(SortByDistance(SubSeq(list, 1, Len(list) - 1)), list[Len(list)])

\* slice(0, count - 1)
Slice_OffByOne(list, count) ==
  SubSeq(list, 1, IF count - 1 < Len(list) THEN count - 1 ELSE Len(list))

\* slice(0, count)
Slice(list, count) == SubSeq(list, 1, IF count < Len(list) THEN count ELSE Len(list))

findNearestStations(catalog, lat, count, excludeHighAltitude) ==
  Slice(SortByDistance(WithDistance(catalog, lat, excludeHighAltitude, 1)), count)

ResolverIdle ==
  /\ call = NoCall
  /\ nearest = NoNearest
  /\ nearestList = << >>

InitResolver ==
  /\ stations \in Catalogs
  /\ point \in QueryPoints
  /\ ResolverIdle

FindNearestStation(excludeHighAltitude, forceHighAltitude) ==
  /\ call' = [op |-> "findNearestStation", excludeHighAltitude |-> excludeHighAltitude,
              forceHighAltitude |-> forceHighAltitude, count |-> 0]
  /\ nearest' = findNearestStation(stations, point, excludeHighAltitude, forceHighAltitude)
  /\ nearestList' = << >>
  /\ UNCHANGED <<stations, point>>
  /\ UNCHANGED nonResolverVars

FindNearestStations(count, excludeHighAltitude) ==
  /\ call' = [op |-> "findNearestStations", excludeHighAltitude |-> excludeHighAltitude,
              forceHighAltitude |-> FALSE, count |-> count]
  /\ nearestList' = findNearestStations(stations, point, count, excludeHighAltitude)
  /\ nearest' = NoNearest
  /\ UNCHANGED <<stations, point>>
  /\ UNCHANGED nonResolverVars

NextResolver ==
  \/ \E excludeHighAltitude \in BOOLEAN, forceHighAltitude \in BOOLEAN :
       FindNearestStation(excludeHighAltitude, forceHighAltitude)
  \/ \E count \in 1..MaxCount, excludeHighAltitude \in BOOLEAN :
       FindNearestStations(count, excludeHighAltitude)

\* ───────────────────────── numbers of the interpolator ───────────────────
\* A JavaScript number of the interpolation arithmetic is kept as an exact
\* fraction [num, den] in lowest terms; den = 0 marks a value that is not
\* finite: Infinity (num = 1) or NaN (num = 0).
Abs(n) == IF n < 0 THEN -n ELSE n

RECURSIVE GCD(_, _)
GCD(a, b) == IF b = 0 THEN a ELSE GCD(b, a % b)

Infinity == [num |-> 1, den |-> 0]
NotANumber == [num |-> 0, den |-> 0]

Frac(n, d) ==
  IF d = 0 THEN (IF n = 0 THEN NotANumber ELSE Infinity)
  ELSE LET g == GCD(Abs(n), Abs(d))
       IN [num |-> n \div g, den |-> d \div g]

IsFinite(a) == a.den # 0

\* a + b
FracAdd(a, b) ==
  IF a = NotANumber \/ b = NotANumber THEN NotANumber
  ELSE IF ~IsFinite(a) \/ ~IsFinite(b) THEN Infinity
  ELSE LET g == GCD(a.den, b.den)
       IN Frac(a.num * (b.den \div g) + b.num * (a.den \div g), (a.den \div g) * b.den)

\* a * b
FracMul(a, b) ==
  IF a = NotANumber \/ b = NotANumber THEN NotANumber
  ELSE IF ~IsFinite(a) \/ ~IsFinite(b)
       THEN (IF a.num = 0 \/ b.num = 0 THEN NotANumber ELSE Infinity)
  ELSE LET g == GCD(Abs(a.num), b.den)
           h == GCD(Abs(b.num), a.den)
       IN Frac((a.num \div g) * (b.num \div h), (a.den \div h) * (b.den \div g))

\* a / b for a, b >= 0
FracDiv(a, b) ==
  IF a = NotANumber \/ b = NotANumber THEN NotANumber
  ELSE IF ~IsFinite(a) THEN (IF IsFinite(b) THEN Infinity ELSE NotANumber)
  ELSE IF ~IsFinite(b) THEN Frac(0, 1)
  ELSE FracMul(a, [num |-> b.den, den |-> b.num])

\* reduce((a, b) => a + b, 0)
RECURSIVE FracSum(_)
FracSum(list) ==
  IF list = << >> THEN Frac(0, 1)
  ELSE FracAdd(FracSum(SubSeq(list, 1, Len(list) - 1)), list[Len(list)])

\* a distance of d tenths of a kilometre, in kilometres
Km(d) == Frac(d, 10)

\* ───────────────────────── calculateDistanceWeights ───────────────────────
\* calculateDistanceWeights without the 0.1 km floor
calculateDistanceWeights_NoFloor(ds) ==
  LET inverseDistances == [i \in DOMAIN ds |->
                             FracDiv(Frac(1, 1), FracMul(Km(ds[i]), Km(ds[i])))]
      sum == FracSum(inverseDistances)
  IN [i \in DOMAIN ds |-> FracDiv(inverseDistances[i], sum)]

\* Math.max(d, 0.1)
MaxFloor(d) == IF d > 1 THEN d ELSE 1

calculateDistanceWeights(ds) ==
  LET inverseDistances == [i \in DOMAIN ds |->
                             FracDiv(Frac(1, 1),
                                     FracMul(Km(MaxFloor(ds[i])), Km(MaxFloor(ds[i]))))]
      sum == FracSum(inverseDistances)
  IN [i \in DOMAIN ds |-> FracDiv(inverseDistances[i], sum)]

\* distances the model hands over: 0, 0.1, 6, 8 and 12 km
DistanceValues == {0, 1, 60, 80, 120}
DistanceLists == UNION { [1..n -> DistanceValues] : n \in 1..MaxDistances }

WeightsIdle ==
  /\ distances = << >>
  /\ weights = << >>

CalculateDistanceWeights ==
  /\ weights' = calculateDistanceWeights(distances)
  /\ UNCHANGED distances
  /\ UNCHANGED nonWeightVars

NextWeights == CalculateDistanceWeights

\* ───────────────────────── interpolation ──────────────────────────────────
SINGLE_STATION_THRESHOLD_KM == 5

\* Math.round(x) of a finite fraction: floor(x + 1/2)
FracRound(a) == (2 * a.num + a.den) \div (2 * a.den)

\* a JS value as a number of the interpolation arithmetic
ToFrac(v) ==
  CASE v.t = "number" -> Frac(v.n, 10)
    [] v.t = "null" -> Frac(0, 1)
    [] OTHER -> NotANumber

\* Math.round(x) as a JS value
RoundToJs(a) == IF IsFinite(a) THEN Whole(FracRound(a)) ELSE NaN

\* Math.round(w * 100) / 100
RoundWeight(w) == IF IsFinite(w) THEN Frac(FracRound(FracMul(w, Frac(100, 1))), 100) ELSE w

\* SunChanceResult
SunChanceResult(sunny, total, chance, confidence) ==
  [sunny_days |-> sunny, total_days |-> total, sun_chance |-> chance, confidence |-> confidence]
ZeroSunChance == SunChanceResult(0, 0, 0, "low")

\* what a query can settle with
NotSettled == [settled |-> FALSE, weather |-> NoResult, sun |-> ZeroSunChance]
SettledWeather(r) == [settled |-> TRUE, weather |-> r, sun |-> ZeroSunChance]
SettledSun(r) == [settled |-> TRUE, weather |-> NoResult, sun |-> r]

\* an entry of the `stations` list of a result
Contribution(station, weight, sunChance) ==
  [stationId |-> station.stationId, distance |-> station.distance, weight |-> weight,
   sunChance |-> sunChance]

\* InterpolatedWeatherResult | null
NoInterpolated == [kind |-> "pending", data |-> NoData, stations |-> << >>,
                   isSingleStation |-> FALSE, isFromCache |-> FALSE]
InterpolatedNull == [kind |-> "null", data |-> NoData, stations |-> << >>,
                     isSingleStation |-> FALSE, isFromCache |-> FALSE]
InterpolatedWeatherResult(data, list, single, fromCache) ==
  [kind |-> "data", data |-> data, stations |-> list, isSingleStation |-> single,
   isFromCache |-> fromCache]

\* InterpolatedSunChanceResult | null
NoInterpolatedSun == [kind |-> "pending", value |-> ZeroSunChance, stations |-> << >>,
                      isSingleStation |-> FALSE]
InterpolatedSunNull == [kind |-> "null", value |-> ZeroSunChance, stations |-> << >>,
                        isSingleStation |-> FALSE]
InterpolatedSunChanceResult(value, list, single) ==
  [kind |-> "data", value |-> value, stations |-> list, isSingleStation |-> single]

\* the values in the order in which the promises settled
PromiseAll_CompletionOrder(rs, order) == [k \in DOMAIN rs |-> rs[order[k]]]

\* the array Promise.all resolves with: the values in the order of the promises
PromiseAll(rs, order) == [i \in DOMAIN rs |-> rs[i]]

\* validResults of fetchInterpolatedWeather: the queries that returned a result
RECURSIVE ValidWeather(_, _, _)
ValidWeather(qs, rs, i) ==
  IF i > Len(qs) THEN << >>
  ELSE (IF rs[i].weather.kind = "data"
        THEN << [station |-> qs[i], data |-> rs[i].weather.data,
                 isFromCache |-> rs[i].weather.isFromCache] >>
        ELSE << >>) \o ValidWeather(qs, rs, i + 1)

\* validResults keeping the stations without data
RECURSIVE ValidSun_KeepsEmpty(_, _, _)
ValidSun_KeepsEmpty(qs, rs, i) ==
  IF i > Len(qs) THEN << >>
  ELSE << [station |-> qs[i], data |-> rs[i].sun] >> \o ValidSun_KeepsEmpty(qs, rs, i + 1)

\* validResults of calculateInterpolatedSunChance: the queries with total_days > 0
RECURSIVE ValidSun(_, _, _)
ValidSun(qs, rs, i) ==
  IF i > Len(qs) THEN << >>
  ELSE (IF rs[i].sun.total_days > 0
        THEN << [station |-> qs[i], data |-> rs[i].sun] >>
        ELSE << >>) \o ValidSun(qs, rs, i + 1)

\* the weights of the valid results, from their rounded distances
WeightsOf(valid) == calculateDistanceWeights([i \in DOMAIN valid |-> valid[i].station.distance \div 100])

\* the sum over the valid results of value * weight
Blend(values, ws) == FracSum([i \in DOMAIN values |-> FracMul(values[i], ws[i])])

RECURSIVE SumInts(_)
SumInts(list) == IF list = << >> THEN 0 ELSE list[1] + SumInts(Tail(list))

\* fetchInterpolatedWeather after its await, single-station branch
SingleWeather(station, r) ==
  IF r.kind # "data" THEN InterpolatedNull
  ELSE InterpolatedWeatherResult(r.data, << Contribution(station, Frac(1, 1), 0) >>,
                                 TRUE, r.isFromCache)

\* fetchInterpolatedWeather after Promise.all
CombineWeather(qs, rs) ==
  LET valid == ValidWeather(qs, rs, 1)
      ws == WeightsOf(valid)
      field(f) == RoundToJs(Blend([i \in DOMAIN valid |-> ToFrac(valid[i].data[f])], ws))
  IN IF Len(valid) = 0 THEN InterpolatedNull
     ELSE IF Len(valid) = 1
          THEN InterpolatedWeatherResult(valid[1].data,
                 << Contribution(valid[1].station, Frac(1, 1), 0) >>, TRUE, valid[1].isFromCache)
     ELSE InterpolatedWeatherResult(
            MkSnapshot(field("temperature"), field("humidity"), field("windSpeed"),
                       valid[1].data.weatherCode, valid[1].data.condition,
                       valid[1].data.conditionLabelKey, Str("now")),
            [i \in DOMAIN valid |-> Contribution(valid[i].station, RoundWeight(ws[i]), 0)],
            FALSE, \E i \in DOMAIN valid : valid[i].isFromCache)

\* calculateInterpolatedSunChance after its await, single-station branch
SingleSun(station, r) ==
  InterpolatedSunChanceResult(r, << Contribution(station, Frac(1, 1), r.sun_chance) >>, TRUE)

\* calculateInterpolatedSunChance after Promise.all
CombineSun(qs, rs) ==
  LET valid == ValidSun(qs, rs, 1)
      n == Len(valid)
      ws == WeightsOf(valid)
      interpolatedSunChance == Blend([i \in DOMAIN valid |-> Frac(valid[i].data.sun_chance, 1)], ws)
      totalSunnyDays == SumInts([i \in DOMAIN valid |-> valid[i].data.sunny_days])
      totalDays == SumInts([i \in DOMAIN valid |-> valid[i].data.total_days])
      confidence == IF totalDays >= 50 * n /\ n >= 2 THEN "high"
                    ELSE IF totalDays >= 20 * n THEN "medium" ELSE "low"
  IN IF n = 0 THEN InterpolatedSunChanceResult(ZeroSunChance, << >>, FALSE)
     ELSE IF n = 1
          THEN InterpolatedSunChanceResult(valid[1].data,
                 << Contribution(valid[1].station, Frac(1, 1), valid[1].data.sun_chance) >>, TRUE)
     ELSE InterpolatedSunChanceResult(
            SunChanceResult(FracRound(Frac(totalSunnyDays, n)), FracRound(Frac(totalDays, n)),
                            FracRound(interpolatedSunChance), confidence),
            [i \in DOMAIN valid |->
               Contribution(valid[i].station, RoundWeight(ws[i]), valid[i].data.sun_chance)],
            FALSE)

InterpIdle ==
  /\ iop = "none"
  /\ ipc = "idle"
  /\ queried = << >>
  /\ results = << >>
  /\ completed = << >>
  /\ interpolated = NoInterpolated
  /\ interpolatedSun = NoInterpolatedSun

\* entry of either operation up to its await: findNearestStations(lat, lon, 3),
\* then one query for the closest station when it is nearer than the
\* threshold, else one query per station found, all issued before the await
StartInterpolation(op) ==
  /\ iop' = op
  /\ call' = [op |-> "findNearestStations", excludeHighAltitude |-> TRUE,
              forceHighAltitude |-> FALSE, count |-> 3]
  /\ nearestList' = findNearestStations(stations, point, 3, TRUE)
  /\ nearest' = NoNearest
  /\ completed' = << >>
  /\ IF nearestList' = << >>
     THEN /\ queried' = << >>
          /\ results' = << >>
          /\ ipc' = "done"
          /\ interpolated' = IF op = "weather" THEN InterpolatedNull ELSE interpolated
          /\ interpolatedSun' = IF op = "sunChance" THEN InterpolatedSunNull ELSE interpolatedSun
     ELSE /\ queried' = IF nearestList'[1].distance < SINGLE_STATION_THRESHOLD_KM * 1000
                        THEN << nearestList'[1] >> ELSE nearestList'
          /\ results' = [i \in DOMAIN queried' |-> NotSettled]
          /\ ipc' = IF nearestList'[1].distance < SINGLE_STATION_THRESHOLD_KM * 1000
                    THEN "single" ELSE "all"
          /\ UNCHANGED <<interpolated, interpolatedSun>>
  /\ UNCHANGED <<stations, point>>
  /\ UNCHANGED nonInterpVars

FetchInterpolatedWeather ==
  /\ ipc = "idle"
  /\ StartInterpolation("weather")

CalculateInterpolatedSunChance ==
  /\ ipc = "idle"
  /\ StartInterpolation("sunChance")

\* the fetchLiveWeather promise of query i settles
LiveWeatherSettles(i, r) ==
  /\ iop = "weather" /\ ipc \in {"single", "all"}
  /\ i \in DOMAIN results /\ ~results[i].settled
  /\ results' = [results EXCEPT ![i] = SettledWeather(r)]
  /\ completed' = Append(completed, i)
  /\ UNCHANGED <<iop, ipc, queried, interpolated, interpolatedSun>>
  /\ UNCHANGED <<resolverVars, nonInterpVars>>

\* the calculateSunChance promise of query i settles
SunChanceSettles(i, r) ==
  /\ iop = "sunChance" /\ ipc \in {"single", "all"}
  /\ i \in DOMAIN results /\ ~results[i].settled
  /\ results' = [results EXCEPT ![i] = SettledSun(r)]
  /\ completed' = Append(completed, i)
  /\ UNCHANGED <<iop, ipc, queried, interpolated, interpolatedSun>>
  /\ UNCHANGED <<resolverVars, nonInterpVars>>

\* every awaited promise has settled: the operation resumes and returns
InterpolationResumes ==
  /\ ipc \in {"single", "all"}
  /\ \A i \in DOMAIN results : results[i].settled
  /\ interpolated' =
       IF iop # "weather" THEN interpolated
       ELSE IF ipc = "single" THEN SingleWeather(queried[1], results[1].weather)
       ELSE CombineWeather(queried, PromiseAll(results, completed))
  /\ interpolatedSun' =
       IF iop # "sunChance" THEN interpolatedSun
       ELSE IF ipc = "single" THEN SingleSun(queried[1], results[1].sun)
       ELSE CombineSun(queried, PromiseAll(results, completed))
  /\ ipc' = "done"
  /\ UNCHANGED <<iop, queried, results, completed>>
  /\ UNCHANGED <<resolverVars, nonInterpVars>>

\* results the model lets fetchLiveWeather settle with: nothing, or the snapshot
\* of a fallback response (one of them without temperature_2m), fresh or cached
InterpCurrents ==
  { Current(Str("time"), Num(200), Num(500), Whole(0), Num(100)),
    Current(Str("time"), Num(220), Num(600), Whole(2), Num(200)),
    Current(Str("time"), Num(240), Num(700), Whole(3), Num(300)),
    Current(Str("time"), Undefined, Num(800), Whole(61), Num(150)) }
LiveWeatherResults ==
  { ReturnNull } \cup
  { ReturnData(OpenMeteoSnapshot(c, FALSE), fromCache) : c \in InterpCurrents, fromCache \in BOOLEAN }

\* results the model lets calculateSunChance settle with
SunChanceResults ==
  { ZeroSunChance, SunChanceResult(30, 60, 50, "high"), SunChanceResult(45, 60, 75, "medium"),
    SunChanceResult(4, 10, 40, "low") }

\* a catalog from the latitudes of its stations and the ids of the high-altitude ones
MkCatalog(lats, high) ==
  [i \in DOMAIN lats |-> [id |-> i, isHighAltitude |-> i \in high, latitude |-> lats[i]]]

\* catalogs of the interpolation specification, seen from the query point 0
InterpCatalogs ==
  { MkCatalog(<< >>, {}),
    MkCatalog(<<3000>>, {1}),
    MkCatalog(<<7000>>, {}),
    MkCatalog(<<1000, 4900, 8000>>, {1}),
    MkCatalog(<<4960, 9000>>, {}),
    MkCatalog(<<5100, 12000, 8000, 6000>>, {}),
    MkCatalog(<<6000, 8000, 12000>>, {}),
    MkCatalog(<<6000, 8000, -12040, 12010>>, {}) }

NextInterp ==
  \/ FetchInterpolatedWeather
  \/ CalculateInterpolatedSunChance
  \/ \E i \in 1..3, r \in LiveWeatherResults : LiveWeatherSettles(i, r)
  \/ \E i \in 1..3, r \in SunChanceResults : SunChanceSettles(i, r)
  \/ InterpolationResumes

\* ───────────────────────── climatology ────────────────────────────────────
\* sunChanceConfig of the locations mapping
MIN_SUN_HOURS == 6
MAX_PRECIP == 0
\* northernMultiplier, in hundredths
NORTHERN_MULTIPLIER == 85

\* v <= k
JsLe(v, k) == (v.t = "number" /\ v.n <= k * 10) \/ (v.t = "null" /\ 0 <= k)

\* a row of weather_data: its date and the sol, precip and tmax columns
Row(year, month, day, sol, precip, tmax) ==
  [date |-> [year |-> year, month |-> month, day |-> day],
   sol |-> sol, precip |-> precip, tmax |-> tmax]

IsLeap(year) == year % 4 = 0 /\ (year % 100 # 0 \/ year % 400 = 0)
\* days of the year before the first of the month, in a common year
DaysBefore == <<0, 31, 59, 90, 120, 151, 181, 212, 243, 273, 304, 334>>

\* Math.floor((date - new Date(year, 0, 0)) / 86400000) for a date of the store,
\* on a device whose local midnight of 31 December is not after midnight UTC
DayOfYear(date) ==
  DaysBefore[date.month] + date.day + (IF IsLeap(date.year) /\ date.month > 2 THEN 1 ELSE 0)

SunnyBySol_AtLeast(row) ==
  /\ row.sol.t # "null"
  /\ ~JsLt(row.sol, MIN_SUN_HOURS)
  /\ (row.precip.t = "null" \/ JsLe(row.precip, MAX_PRECIP))

\* the sunny-day test on sun-hours data
SunnyBySol(row) ==
  /\ row.sol.t # "null"
  /\ JsGt(row.sol, MIN_SUN_HOURS)
  /\ (row.precip.t = "null" \/ JsLe(row.precip, MAX_PRECIP))

\* the dry-day proxy
Dry(row) == row.precip.t = "null" \/ JsLe(row.precip, MAX_PRECIP)

Confidence_IgnoresSol(totalDays, hasSolData) ==
  IF totalDays >= 50 THEN "high"
  ELSE IF totalDays >= 20 THEN "medium"
  ELSE "low"

\* the confidence grade of calculateSunChance
Confidence(totalDays, hasSolData) ==
  IF totalDays >= 50 /\ hasSolData THEN "high"
  ELSE IF totalDays >= 20 THEN "medium"
  ELSE "low"

\* calculateSunChance on the rows the store returned
SunChanceOfData(data, northern, month, dayStart, dayEnd) ==
  LET filteredData == { row \in data : /\ row.date.month = month
                                       /\ row.date.day >= dayStart
                                       /\ row.date.day <= dayEnd }
      totalDays == Cardinality(filteredData)
      hasSolData == \E row \in filteredData : row.sol.t # "null"
      dryDays == Cardinality({ row \in filteredData : Dry(row) })
      sunnyDays ==
        IF hasSolData THEN Cardinality({ row \in filteredData : SunnyBySol(row) })
        ELSE IF northern THEN FracRound(Frac(dryDays * NORTHERN_MULTIPLIER, 100))
        ELSE dryDays
      chance == IF totalDays > 0 THEN FracRound(Frac(sunnyDays * 100, totalDays)) ELSE 0
  IN IF data = {} THEN ZeroSunChance
     ELSE SunChanceResult(sunnyDays, totalDays, chance, Confidence(totalDays, hasSolData))

\* what the query of the store settles with
StoreOutcomes == {"data", "noData", "error", "throw"}

SunChanceAfter_ErrorUnchecked(outcome, data, northern, month, dayStart, dayEnd) ==
  IF outcome \in {"data", "error"} THEN SunChanceOfData(data, northern, month, dayStart, dayEnd)
  ELSE ZeroSunChance

\* calculateSunChance after the query settled
SunChanceAfter(outcome, data, northern, month, dayStart, dayEnd) ==
  IF outcome = "data" THEN SunChanceOfData(data, northern, month, dayStart, dayEnd)
  ELSE ZeroSunChance

\* ───────────────────────── getBestWeeksForStation ─────────────────────────
RECURSIVE SumTmax(_)
SumTmax(rows) ==
  IF rows = {} THEN 0
  ELSE LET row == CHOOSE r \in rows : TRUE
           same == { r \in rows : r.tmax = row.tmax }
       IN row.tmax.n * Cardinality(same) + SumTmax(rows \ same)

\* the entry of dayOfYearData built from the rows of one day; sunny is kept
\* in hundredths
DayData(rows, northern, hasSolData) ==
  LET sunnyRows == { row \in rows : IF hasSolData THEN SunnyBySol(row) ELSE Dry(row) }
      withTmax == { row \in rows : row.tmax.t # "null" }
  IN [sunny |-> Cardinality(sunnyRows) * (IF northern /\ ~hasSolData THEN NORTHERN_MULTIPLIER ELSE 100),
      total |-> Cardinality(rows),
      tmaxSum |-> SumTmax(withTmax),
      tmaxCount |-> Cardinality(withTmax)]

\* dayOfYearData after the pass over the rows: a map from day of year to entry
DayOfYearData(data, northern) ==
  LET hasSolData == \E row \in data : row.sol.t # "null"
      dated == { [day |-> DayOfYear(row.date), row |-> row] : row \in data }
  IN [d \in { x.day : x \in dated } |->
        DayData({ x.row : x \in { y \in dated : y.day = d } }, northern, hasSolData)]

WindowDays_Through365(startDay) ==
  { d \in startDay..(startDay + 6 + (IF startDay = 358 THEN 1 ELSE 0)) : d <= 365 }

\* the days the inner loop visits for a window starting at startDay
WindowDays(startDay) == { d \in startDay..(startDay + 6) : d <= 365 }

RECURSIVE SumField(_, _, _)
SumField(dayOfYearData, days, f) ==
  IF days = {} THEN 0
  ELSE LET d == CHOOSE x \in days : TRUE
       IN (IF d \in DOMAIN dayOfYearData THEN dayOfYearData[d][f] ELSE 0)
            + SumField(dayOfYearData, days \ {d}, f)

\* the score of a week, doubled: sunChance * 1.5 plus the temperature bonus
Score2(chance, avgTmax) ==
  3 * chance
    + (IF avgTmax >= 240 /\ avgTmax <= 270 THEN 40
       ELSE IF avgTmax >= 220 /\ avgTmax <= 290 THEN 20
       ELSE IF avgTmax < 200 \/ avgTmax > 320 THEN -20
       ELSE 0)

\* the aggregate of the window starting at startDay; avgTmax is in tenths
WeekOf(dayOfYearData, startDay) ==
  LET days == WindowDays(startDay) \cap DOMAIN dayOfYearData
      totalSunny == SumField(dayOfYearData, days, "sunny")
      totalDays == SumField(dayOfYearData, days, "total")
      tmaxSum == SumField(dayOfYearData, days, "tmaxSum")
      tmaxCount == SumField(dayOfYearData, days, "tmaxCount")
      chance == IF totalDays > 0 THEN FracRound(Frac(totalSunny, totalDays)) ELSE 0
      avgTmax == IF tmaxCount > 0 THEN FracRound(Frac(tmaxSum, tmaxCount)) ELSE 0
  IN [start |-> startDay, days |-> WindowDays(startDay), totalDays |-> totalDays,
      sunChance |-> chance, avgTmax |-> avgTmax, score |-> Score2(chance, avgTmax)]

\* the loop over startDay = 1, 8, ..., 358 pushing the weeks that hold data
RECURSIVE WeeklyData(_, _)
WeeklyData(dayOfYearData, startDay) ==
  IF startDay > 358 THEN << >>
  ELSE LET week == WeekOf(dayOfYearData, startDay)
       IN (IF week.totalDays > 0 THEN << week >> ELSE << >>)
            \o WeeklyData(dayOfYearData, startDay + 7)

\* sort((a, b) => b.score - a.score): a stable sort by descending score
RECURSIVE InsertByScore(_, _)
InsertByScore(sorted, e) ==
  IF sorted = << >> THEN << e >>
  ELSE IF e.score > Head(sorted).score THEN << e >> \o sorted
  ELSE << Head(sorted) >> \o InsertByScore(Tail(sorted), e)

RECURSIVE SortByScore(_)
SortByScore(list) ==
  IF list = << >> THEN << >>
  ELSE InsertByScore(SortByScore(SubSeq(list, 1, Len(list) - 1)), list[Len(list)])

\* month (0..11) and day of month of new Date(2024, 0, dayOfYear)
DaysBefore2024 == <<0, 31, 60, 91, 121, 152, 182, 213, 244, 274, 305, 335>>
MonthOf2024(dayOfYear) ==
  CHOOSE m \in 0..11 : /\ DaysBefore2024[m + 1] < dayOfYear
                       /\ (m = 11 \/ dayOfYear <= DaysBefore2024[m + 2])
DateOf2024(dayOfYear) ==
  [month |-> MonthOf2024(dayOfYear),
   day |-> dayOfYear - DaysBefore2024[MonthOf2024(dayOfYear) + 1]]

\* WeeklyBestPeriod; monthName and dateRange are kept as the dates they print
WeeklyBestPeriod(week) ==
  [weekStart |-> week.start, weekEnd |-> week.start + 6,
   monthName |-> MonthOf2024(week.start),
   dateRange |-> << DateOf2024(week.start), DateOf2024(week.start + 6) >>,
   sunChance |-> week.sunChance, avgTmax |-> week.avgTmax]

\* the top 3 weeks
BestWeeksOf(weekly) ==
  LET topWeeks == Slice(SortByScore(weekly), 3)
  IN [i \in DOMAIN topWeeks |-> WeeklyBestPeriod(topWeeks[i])]

NoArgs == [month |-> 0, dayStart |-> 0, dayEnd |-> 0]
NoSunChance == SunChanceResult(-1, -1, -1, "none")

ClimateIdle ==
  /\ weather_data = {}
  /\ isNorthern = FALSE
  /\ cpc = "idle"
  /\ cargs = NoArgs
  /\ sunResult = NoSunChance
  /\ weeklyData = << >>
  /\ bestWeeks = << >>

\* entry of calculateSunChance up to the await of the query
CalculateSunChance(month, dayStart, dayEnd) ==
  /\ cpc \in {"idle", "done"}
  /\ cpc' = "sunChance"
  /\ cargs' = [month |-> month, dayStart |-> dayStart, dayEnd |-> dayEnd]
  /\ sunResult' = NoSunChance
  /\ weeklyData' = << >>
  /\ bestWeeks' = << >>
  /\ UNCHANGED <<weather_data, isNorthern>>
  /\ UNCHANGED nonClimateVars

\* the query of calculateSunChance settles and the function returns
SunChanceQuerySettles(outcome) ==
  /\ cpc = "sunChance"
  /\ outcome = "data" => weather_data # {}
  /\ outcome = "noData" => weather_data = {}
  /\ sunResult' = SunChanceAfter(outcome, weather_data, isNorthern,
                                 cargs.month, cargs.dayStart, cargs.dayEnd)
  /\ cpc' = "done"
  /\ UNCHANGED <<weather_data, isNorthern, cargs, weeklyData, bestWeeks>>
  /\ UNCHANGED nonClimateVars

\* entry of getBestWeeksForStation up to the await of the query
GetBestWeeksForStation ==
  /\ cpc \in {"idle", "done"}
  /\ cpc' = "bestWeeks"
  /\ cargs' = NoArgs
  /\ sunResult' = NoSunChance
  /\ weeklyData' = << >>
  /\ bestWeeks' = << >>
  /\ UNCHANGED <<weather_data, isNorthern>>
  /\ UNCHANGED nonClimateVars

\* the query of getBestWeeksForStation settles and the function returns
BestWeeksQuerySettles(outcome) ==
  /\ cpc = "bestWeeks"
  /\ outcome = "data" => weather_data # {}
  /\ outcome = "noData" => weather_data = {}
  /\ weeklyData' = IF outcome = "data"
                   THEN WeeklyData(DayOfYearData(weather_data, isNorthern), 1) ELSE << >>
  /\ bestWeeks' = BestWeeksOf(weeklyData')
  /\ cpc' = "done"
  /\ UNCHANGED <<weather_data, isNorthern, cargs, sunResult>>
  /\ UNCHANGED nonClimateVars

\* rows of one kind: every day of dayFrom..dayTo of the month in each year of
\* yearFrom..yearTo, all with the same sol, precip and tmax
RowsOf(yearFrom, yearTo, month, dayFrom, dayTo, sol, precip, tmax) ==
  { Row(y, month, d, sol, precip, tmax) : y \in yearFrom..yearTo, d \in dayFrom..dayTo }

\* the kinds of rows the model fills the store with: 30, 19 and 20 rows of
\* March, single rows of March, rows of other months, and 31 December
RowKinds ==
  << RowsOf(2015, 2019, 3, 8, 13, Null, Num(0), Num(230)),
     RowsOf(2022, 2022, 3, 13, 31, Num(50), Num(0), Num(190)),
     RowsOf(2020, 2021, 3, 8, 17, Null, Num(5), Num(250)),
     RowsOf(2023, 2023, 3, 15, 15, Num(60), Num(0), Num(260)),
     RowsOf(2023, 2023, 3, 16, 16, Num(70), Num(5), Null),
     RowsOf(2023, 2023, 3, 17, 17, Null, Null, Num(210)),
     RowsOf(2023, 2023, 3, 18, 18, Num(61), Num(0), Num(300)),
     RowsOf(2023, 2023, 3, 19, 19, Num(70), Null, Num(300)),
     RowsOf(2023, 2023, 4, 15, 15, Num(90), Num(0), Num(330))
       \cup RowsOf(2023, 2023, 12, 24, 24, Num(80), Num(0), Num(220))
       \cup RowsOf(2023, 2023, 12, 30, 30, Num(80), Num(0), Num(220)),
     RowsOf(2023, 2023, 12, 31, 31, Num(80), Num(0), Num(220)) >>

Datasets == { UNION { RowKinds[k] : k \in K } : K \in SUBSET DOMAIN RowKinds }

\* the windows calculateSunChance is called with
SunChanceArgs == { <<3, 1, 31>>, <<3, 8, 20>> }

NextClimate ==
  \/ \E a \in SunChanceArgs : CalculateSunChance(a[1], a[2], a[3])
  \/ \E outcome \in StoreOutcomes : SunChanceQuerySettles(outcome)
  \/ GetBestWeeksForStation
  \/ \E outcome \in StoreOutcomes : BestWeeksQuerySettles(outcome)

\* ───────────────────────── batch fetcher: fetchPeriodData ─────────────────
\* CONFIG.RETRY_DELAY_MS and CONFIG.MAX_RETRIES
RETRY_DELAY_MS == 30000
MAX_RETRIES == 3

\* String.prototype.includes on strings kept as sequences of characters
Includes(str, pattern) ==
  \E i \in 1..(Len(str) - Len(pattern) + 1) : SubSeq(str, i, i + Len(pattern) - 1) = pattern

\* the messages of the errors the two requests and the processing step raise
UrlErrors ==
  { <<"A", "E", "M", "E", "T", " ", "A", "P", "I", " ", "e", "r", "r", "o", "r", ":", " ", "4", "2", "9", " ", "T", "o", "o", " ", "M", "a", "n", "y", " ", "R", "e", "q", "u", "e", "s", "t", "s">>,
    <<"A", "E", "M", "E", "T", " ", "A", "P", "I", " ", "e", "r", "r", "o", "r", ":", " ", "5", "0", "0", " ", "I", "n", "t", "e", "r", "n", "a", "l", " ", "S", "e", "r", "v", "e", "r", " ", "E", "r", "r", "o", "r">>,
    <<"A", "E", "M", "E", "T", " ", "A", "P", "I", " ", "e", "r", "r", "o", "r", ":", " ", "5", "0", "3", " ", "S", "e", "r", "v", "i", "c", "e", " ", "U", "n", "a", "v", "a", "i", "l", "a", "b", "l", "e">>,
    <<"A", "E", "M", "E", "T", " ", "A", "P", "I", " ", "e", "r", "r", "o", "r", ":", " ", "4", "0", "4", " ", "N", "o", "t", " ", "F", "o", "u", "n", "d">>,
    <<"A", "E", "M", "E", "T", " ", "A", "P", "I", " ", "r", "e", "t", "u", "r", "n", "e", "d", " ", "e", "s", "t", "a", "d", "o", ":", " ", "4", "0", "4", " ", "-", " ", "N", "o", " ", "h", "a", "y", " ", "d", "a", "t", "o", "s">>,
    <<"f", "e", "t", "c", "h", " ", "f", "a", "i", "l", "e", "d">> }
DataErrors ==
  { <<"F", "a", "i", "l", "e", "d", " ", "t", "o", " ", "f", "e", "t", "c", "h", " ", "d", "a", "t", "a", ":", " ", "5", "0", "0">>,
    <<"F", "a", "i", "l", "e", "d", " ", "t", "o", " ", "f", "e", "t", "c", "h", " ", "d", "a", "t", "a", ":", " ", "4", "0", "3">>,
    <<"f", "e", "t", "c", "h", " ", "f", "a", "i", "l", "e", "d">> }
ProcessErrors == { <<"r", "a", "w", "D", "a", "t", "a", ".", "m", "a", "p", " ", "i", "s", " ", "n", "o", "t", " ", "a", " ", "f", "u", "n", "c", "t", "i", "o", "n">> }

\* the test of the catch block on the message of the error
isRetryable(errorMessage) ==
  \/ Includes(errorMessage, <<"5", "0", "0">>)
  \/ Includes(errorMessage, <<"5", "0", "3">>)
  \/ Includes(errorMessage, <<"4", "2", "9">>)
  \/ Includes(errorMessage, <<"T", "o", "o", " ", "M", "a", "n", "y", " ", "R", "e", "q", "u", "e", "s", "t", "s">>)
  \/ Includes(errorMessage, <<"S", "e", "r", "v", "i", "c", "e", " ", "U", "n", "a", "v", "a", "i", "l", "a", "b", "l", "e">>)

\* the retry test without the limit on retryCount
ShouldRetry_Unlimited(errorMessage, count) == isRetryable(errorMessage)

\* isRetryable && retryCount < CONFIG.MAX_RETRIES
ShouldRetry(errorMessage, count) == isRetryable(errorMessage) /\ count < MAX_RETRIES

NoFetchResult == [kind |-> "pending", error |-> << >>]
FetchSuccess == [kind |-> "success", error |-> << >>]
FetchFailure(errorMessage) == [kind |-> "failure", error |-> errorMessage]

RetryIdle ==
  /\ rpc = "idle"
  /\ retryCount = 0
  /\ attempts = << >>
  /\ fetchResult = NoFetchResult

\* the catch block: sleep and call again, or return the failure
Catch(errorMessage) ==
  IF ShouldRetry(errorMessage, retryCount)
  THEN /\ rpc' = "retrySleep"
       /\ fetchResult' = [kind |-> "pending", error |-> errorMessage]
       /\ UNCHANGED <<retryCount, attempts>>
  ELSE /\ rpc' = "done"
       /\ fetchResult' = FetchFailure(errorMessage)
       /\ UNCHANGED <<retryCount, attempts>>

\* entry of fetchPeriodData for a period: a period that starts in the future
\* returns at once, any other issues the request for the data URL
FetchPeriodData(startsInFuture) ==
  /\ rpc \in {"idle", "done"}
  /\ retryCount' = 0
  /\ IF startsInFuture
     THEN /\ rpc' = "done"
          /\ attempts' = << >>
          /\ fetchResult' = FetchSuccess
     ELSE /\ rpc' = "dataUrl"
          /\ attempts' = << [retryCount |-> 0, waited |-> 0, after |-> << >>] >>
          /\ fetchResult' = NoFetchResult
  /\ UNCHANGED nonRetryVars

\* fetchAemetDataUrl settles: sleep(1000) starts, or the error is caught
DataUrlSettles(outcome) ==
  /\ rpc = "dataUrl"
  /\ IF outcome = << >>
     THEN rpc' = "pause" /\ UNCHANGED <<retryCount, attempts, fetchResult>>
     ELSE Catch(outcome)
  /\ UNCHANGED nonRetryVars

\* sleep(1000) ends and the request for the data is issued
PauseEnds ==
  /\ rpc = "pause"
  /\ rpc' = "data"
  /\ UNCHANGED <<retryCount, attempts, fetchResult>>
  /\ UNCHANGED nonRetryVars

\* fetchAemetData settles and the records are processed
DataSettles(outcome) ==
  /\ rpc = "data"
  /\ IF outcome = << >>
     THEN /\ rpc' = "done"
          /\ fetchResult' = FetchSuccess
          /\ UNCHANGED <<retryCount, attempts>>
     ELSE Catch(outcome)
  /\ UNCHANGED nonRetryVars

\* sleep(CONFIG.RETRY_DELAY_MS) ends: fetchPeriodData calls itself with
\* retryCount + 1 and issues the request for the data URL again
RetrySleepEnds ==
  /\ rpc = "retrySleep"
  /\ rpc' = "dataUrl"
  /\ retryCount' = retryCount + 1
  /\ attempts' = Append(attempts, [retryCount |-> retryCount + 1, waited |-> RETRY_DELAY_MS,
                                   after |-> fetchResult.error])
  /\ fetchResult' = NoFetchResult
  /\ UNCHANGED nonRetryVars

NextRetry ==
  \/ \E startsInFuture \in BOOLEAN : FetchPeriodData(startsInFuture)
  \/ \E outcome \in UrlErrors \cup {<< >>} : DataUrlSettles(outcome)
  \/ PauseEnds
  \/ \E outcome \in DataErrors \cup ProcessErrors \cup {<< >>} : DataSettles(outcome)
  \/ RetrySleepEnds

\* ───────────────────────── batch fetcher: interpolateMissingTemperatures ──
\* ProcessedWeatherData: the date as the number of its day, temperatures in
\* tenths of a degree
Processed(date, tavg, tmax, tmin, flag) ==
  [date |-> date, tavg |-> tavg, tmax |-> tmax, tmin |-> tmin, is_interpolated |-> flag]

\* [...data].sort((a, b) => date of a - date of b)
RECURSIVE InsertByDate(_, _)
InsertByDate(sorted, e) ==
  IF sorted = << >> THEN << e >>
  ELSE IF e.date < Head(sorted).date THEN << e >> \o sorted
  ELSE << Head(sorted) >> \o InsertByDate(Tail(sorted), e)

RECURSIVE SortByDate(_)
SortByDate(list) ==
  IF list = << >> THEN << >>
  ELSE InsertByDate(SortByDate(SubSeq(list, 1, Len(list) - 1)), list[Len(list)])

\* the backward scan: the nearest index before i with a non-null tavg, 0 when
\* the scan leaves the array
RECURSIVE PrevIndex(_, _)
PrevIndex(sorted, prevIndex) ==
  IF prevIndex >= 1 /\ sorted[prevIndex].tavg = Null
  THEN PrevIndex(sorted, prevIndex - 1)
  ELSE prevIndex

\* the forward scan: the nearest index after i with a non-null tavg,
\* Len(sorted) + 1 when the scan leaves the array
RECURSIVE NextIndex(_, _)
NextIndex(sorted, nextIndex) ==
  IF nextIndex <= Len(sorted) /\ sorted[nextIndex].tavg = Null
  THEN NextIndex(sorted, nextIndex + 1)
  ELSE nextIndex

\* Math.round(x * 10) / 10 of x = num / den tenths: the nearest tenth, halves up
RoundTenth(num, den) == (2 * num + den) \div (2 * den)

\* Math.round((prevValue + (nextValue - prevValue) * (position / totalGap)) * 10) / 10
Interpolate(prevValue, nextValue, position, totalGap) ==
  RoundTenth(prevValue * totalGap + (nextValue - prevValue) * position, totalGap)

\* one pass of the loop body on sorted[i]; the array is changed in place
FillAt(sorted, i) ==
  LET prevIndex == PrevIndex(sorted, i - 1)
      nextIndex == NextIndex(sorted, i + 1)
      filled(v) == [sorted EXCEPT ![i].tavg = v, ![i].is_interpolated = TRUE]
  IN  IF sorted[i].tavg # Null THEN sorted
      ELSE IF prevIndex >= 1 /\ nextIndex <= Len(sorted)
        THEN filled(Num(Interpolate(sorted[prevIndex].tavg.n, sorted[nextIndex].tavg.n,
                                    i - prevIndex, nextIndex - prevIndex)))
      ELSE IF prevIndex >= 1 THEN filled(sorted[prevIndex].tavg)
      ELSE IF nextIndex <= Len(sorted) THEN filled(sorted[nextIndex].tavg)
      ELSE IF sorted[i].tmax # Null /\ sorted[i].tmin # Null
        THEN filled(Num(RoundTenth(sorted[i].tmax.n + sorted[i].tmin.n, 2)))
      ELSE sorted

\* the loop from index i to the end of the array
RECURSIVE FillFrom(_, _)
FillFrom(sorted, i) ==
  IF i > Len(sorted) THEN sorted ELSE FillFrom(FillAt(sorted, i), i + 1)

interpolateMissingTemperatures(records) == FillFrom(SortByDate(records), 1)

\* the series handed to the function: up to four records on distinct days, in
\* ascending or descending order of date, none flagged
SeriesDays == 1..4
MeanValues == {Null, Num(100), Num(105)}
ExtremeValues == {<<Null, Null>>, <<Num(200), Num(100)>>, <<Num(300), Num(200)>>}

RECURSIVE Ascending(_)
Ascending(days) ==
  IF days = {} THEN << >>
  ELSE LET d == CHOOSE x \in days : \A y \in days : x <= y
       IN  << d >> \o Ascending(days \ {d})

Reverse(list) == [k \in DOMAIN list |-> list[Len(list) + 1 - k]]

\* the series on the given days, listed in order, with the given values
SeriesOf(order, means, extremes, descending) ==
  LET asc == [k \in DOMAIN order |->
                Processed(order[k], means[order[k]], extremes[order[k]][1],
                          extremes[order[k]][2], FALSE)]
  IN  IF descending THEN Reverse(asc) ELSE asc

SeriesIdle ==
  /\ allData = << >>
  /\ interpolatedData = << >>

\* interpolateMissingTemperatures(data) returns
InterpolateMissingTemperatures ==
  /\ allData # << >>
  /\ interpolatedData = << >>
  /\ interpolatedData' = interpolateMissingTemperatures(allData)
  /\ UNCHANGED allData
  /\ UNCHANGED nonSeriesVars

NextSeries == InterpolateMissingTemperatures

\* ───────────────────────── analytics: the event queue ────────────────────
MAX_QUEUE_SIZE == 10

Events == 1..MaxEvents

\* the synchronous part of flushEventQueue, up to the await of the insert:
\* the timer is cleared and its handle forgotten, and a non-empty queue is
\* copied into the batch and emptied. The variant keeps the handle.
flushEventQueue_KeepsHandle(queue, timer) ==
  [flushTimer |-> IF timer = "null" THEN "null" ELSE "spent",
   eventsToSend |-> queue,
   eventQueue |-> << >>]

flushEventQueue(queue, timer) ==
  [flushTimer |-> "null",
   eventsToSend |-> queue,
   eventQueue |-> << >>]

\* the batch counted on the events it holds
HandedTo(eventsToSend) ==
  [e \in Events |-> IF \E k \in DOMAIN eventsToSend : eventsToSend[k] = e
                    THEN handed[e] + 1 ELSE handed[e]]

AnalyticsIdle ==
  /\ eventQueue = << >>
  /\ flushTimer = "null"
  /\ tracking = 0
  /\ inserting = 0
  /\ tracked = 0
  /\ pushed = 0
  /\ handed = [e \in Events |-> 0]

\* flushEventQueue runs up to its await (or returns on an empty queue)
RunFlush(queue, timer) ==
  LET flush == flushEventQueue(queue, timer)
  IN  /\ flushTimer' = flush.flushTimer
      /\ eventQueue' = flush.eventQueue
      /\ handed' = HandedTo(flush.eventsToSend)
      /\ inserting' = IF flush.eventsToSend = << >> THEN inserting ELSE inserting + 1

\* trackSearchEvent is called and awaits getOrCreateSessionId
TrackSearchEvent ==
  /\ tracked < MaxEvents
  /\ tracking < MaxTracking
  /\ tracked' = tracked + 1
  /\ tracking' = tracking + 1
  /\ UNCHANGED <<eventQueue, flushTimer, inserting, pushed, handed>>
  /\ UNCHANGED nonAnalyticsVars

\* getOrCreateSessionId returns (it catches its own errors): the event is
\* pushed, and the queue is flushed when it is full, or the timer armed when
\* none is set
SessionSettles ==
  /\ tracking >= 1
  /\ tracking' = tracking - 1
  /\ pushed' = pushed + 1
  /\ IF Len(eventQueue) + 1 >= MAX_QUEUE_SIZE
     THEN RunFlush(Append(eventQueue, pushed + 1), flushTimer)
     ELSE /\ eventQueue' = Append(eventQueue, pushed + 1)
          /\ flushTimer' = IF flushTimer = "null" THEN "pending" ELSE flushTimer
          /\ UNCHANGED <<inserting, handed>>
  /\ UNCHANGED tracked
  /\ UNCHANGED nonAnalyticsVars

\* flushEventQueue is entered: by the callback of the flush timer, which fires
\* FLUSH_INTERVAL_MS after it was armed, or by a call of flushAnalytics
FlushEventQueue(byTimer) ==
  /\ IF byTimer THEN flushTimer = "pending" ELSE tracked >= 1
  /\ RunFlush(eventQueue, IF byTimer THEN "spent" ELSE flushTimer)
  /\ UNCHANGED <<tracking, tracked, pushed>>
  /\ UNCHANGED nonAnalyticsVars

\* the insert of a batch settles; an error is only logged
InsertSettles ==
  /\ inserting >= 1
  /\ inserting' = inserting - 1
  /\ UNCHANGED <<eventQueue, flushTimer, tracking, tracked, pushed, handed>>
  /\ UNCHANGED nonAnalyticsVars

NextAnalytics ==
  \/ TrackSearchEvent
  \/ SessionSettles
  \/ \E byTimer \in BOOLEAN : FlushEventQueue(byTimer)
  \/ InsertSettles

\* ───────────────────────── result screen: loads of live weather ──────────
\* setInterval(loadLiveWeather, 5 * 60 * 1000)
LIVE_REFRESH_MS == 300000

NoRateLimitEntry == [present |-> FALSE, writer |-> 0, at |-> 0]
\* an entry left by a call made before the mount
EarlierEntry == [present |-> TRUE, writer |-> 0, at |-> 0]

\* getFromRateLimitCache finds an entry that is not older than RATE_LIMIT_MS
RateLimited(entry, t) == entry.present /\ ~(t - entry.at > RATE_LIMIT_MS)

\* fetchLiveWeather returns the tier-1 snapshot without a request
AnsweredFromTier1(entry, t, forceRefresh) == ~forceRefresh /\ RateLimited(entry, t)

ScreenIdle ==
  /\ mounted = FALSE
  /\ period = 0
  /\ calls = 0
  /\ inFlight = {}
  /\ rateLimit = NoRateLimitEntry

\* a call of fetchLiveWeather for the station of the screen: answered from
\* tier 1, or left waiting for the network
StartFetch(trigger, forceRefresh, t) ==
  /\ calls < MaxFetches
  /\ calls' = calls + 1
  /\ inFlight' = IF AnsweredFromTier1(rateLimit, t * LIVE_REFRESH_MS, forceRefresh)
                 THEN inFlight
                 ELSE inFlight \cup {[call |-> calls + 1, trigger |-> trigger, startedIn |-> t]}
  /\ UNCHANGED rateLimit

\* the effect runs after the mount: loadLiveWeather is called and the interval set
Mount ==
  /\ ~mounted
  /\ mounted' = TRUE
  /\ StartFetch("initial", FALSE, period)
  /\ UNCHANGED period
  /\ UNCHANGED nonScreenVars

\* the interval fires 5 minutes after the mount or the last firing; a load
\* lasts less than the interval, so only a pull-to-refresh of the period that
\* ends can still be waiting
IntervalFires ==
  /\ mounted
  /\ period < MaxPeriods
  /\ \A f \in inFlight : f.trigger = "pull" /\ f.startedIn = period
  /\ period' = period + 1
  /\ StartFetch("periodic", FALSE, period + 1)
  /\ UNCHANGED mounted
  /\ UNCHANGED nonScreenVars

\* the user pulls to refresh: handleRefresh calls fetchLiveWeather with forceRefresh
HandleRefresh ==
  /\ mounted
  /\ StartFetch("pull", TRUE, period)
  /\ UNCHANGED <<mounted, period>>
  /\ UNCHANGED nonScreenVars

\* the requests of a call settle: a fresh snapshot is written to tier 1 by
\* saveToRateLimitCache, a failure writes nothing
FetchSettles(c, fresh) ==
  /\ \E f \in inFlight : f.call = c
  /\ inFlight' = {f \in inFlight : f.call # c}
  /\ rateLimit' = IF fresh
                  THEN [present |-> TRUE, writer |-> c, at |-> period * LIVE_REFRESH_MS]
                  ELSE rateLimit
  /\ UNCHANGED <<mounted, period, calls>>
  /\ UNCHANGED nonScreenVars

NextScreen ==
  \/ Mount
  \/ IntervalFires
  \/ HandleRefresh
  \/ \E c \in 1..MaxFetches, fresh \in BOOLEAN : FetchSettles(c, fresh)

\* ───────────────────────── lifecycle of the network attempts ─────────────
\* const TIMEOUT_MS = 10000 of fetchAemetLiveWeather and fetchLiveWeather
TIMEOUT_MS == 10000
\* the step of the clock of an attempt: a quarter of the timeout
CLOCK_STEP_MS == TIMEOUT_MS \div 4

FetchStages == {"metaFetch", "dataFetch", "openMeteoFetch"}
BodyStages == {"metaBody", "dataBody", "openMeteoBody"}
PrimaryStages == {"metaFetch", "metaBody", "dataFetch", "dataBody"}

NoFlags == [forceRefresh |-> FALSE, dev |-> FALSE, key |-> FALSE]

AttemptIdle ==
  /\ stage = "idle"
  /\ streaming = FALSE
  /\ timeoutId = FALSE
  /\ elapsed = 0
  /\ callFlags = NoFlags
  /\ returned = "none"

\* a request is issued: setTimeout(() => controller.abort(), TIMEOUT_MS), fetch
IssueRequest(fetchStage) ==
  /\ stage' = fetchStage
  /\ timeoutId' = TRUE
  /\ elapsed' = 0
  /\ returned' = "none"

\* the call returns
Return(value) ==
  /\ stage' = "done"
  /\ timeoutId' = FALSE
  /\ returned' = value
  /\ UNCHANGED elapsed

\* the Open-Meteo stage failed: the persistent cache is read unless the call
\* is forced, else the mock snapshot (development build) or null is returned
OpenMeteoFailed ==
  IF ~callFlags.forceRefresh
  THEN /\ stage' = "cacheRead"
       /\ timeoutId' = FALSE
       /\ UNCHANGED <<elapsed, returned>>
  ELSE Return(IF callFlags.dev THEN "mock" ELSE "unavailable")

\* a stage failed: fetchAemetLiveWeather returns null and the Open-Meteo
\* request is issued, or the Open-Meteo stage failed
StageFailed ==
  IF stage \in PrimaryStages THEN IssueRequest("openMeteoFetch") ELSE OpenMeteoFailed

\* the body of a response has been read
BodyRead(content) ==
  IF content # "valid" THEN StageFailed
  ELSE IF stage \in {"metaFetch", "metaBody"} THEN IssueRequest("dataFetch")
  ELSE /\ stage' = "saving"
       /\ timeoutId' = FALSE
       /\ UNCHANGED <<elapsed, returned>>

\* fetchLiveWeather is called for a station and is not answered from tier 1:
\* the AEMET metadata request is issued when the key is set, else the
\* Open-Meteo request
CallFetchLiveWeather(flags) ==
  /\ stage \in {"idle", "done"}
  /\ callFlags' = flags
  /\ IssueRequest(IF flags.key THEN "metaFetch" ELSE "openMeteoFetch")
  /\ UNCHANGED streaming
  /\ UNCHANGED nonAttemptVars

\* time passes while a request or the reading of a body is pending
AttemptClock ==
  /\ stage \in FetchStages \cup BodyStages
  /\ elapsed <= TIMEOUT_MS
  /\ timeoutId => elapsed < TIMEOUT_MS
  /\ elapsed' = elapsed + CLOCK_STEP_MS
  /\ UNCHANGED <<stage, streaming, timeoutId, callFlags, returned>>
  /\ UNCHANGED nonAttemptVars

\* the timer fires TIMEOUT_MS after it was armed: controller.abort() rejects
\* the pending fetch and the catch block takes over
TimeoutFires ==
  /\ timeoutId
  /\ elapsed = TIMEOUT_MS
  /\ StageFailed
  /\ UNCHANGED <<streaming, callFlags>>
  /\ UNCHANGED nonAttemptVars

\* the awaited fetch settles: clearTimeout(timeoutId); a rejection or a
\* response that is not ok fails the stage; otherwise the body is read by
\* response.json(), at once where fetch resolved with the whole response
FetchResolves(status, content) ==
  /\ stage \in FetchStages
  /\ timeoutId
  /\ IF status # "ok" THEN StageFailed
     ELSE IF streaming
       THEN /\ stage' = CASE stage = "metaFetch" -> "metaBody"
                          [] stage = "dataFetch" -> "dataBody"
                          [] OTHER -> "openMeteoBody"
            /\ timeoutId' = FALSE
            /\ UNCHANGED <<elapsed, returned>>
     ELSE BodyRead(content)
  /\ UNCHANGED <<streaming, callFlags>>
  /\ UNCHANGED nonAttemptVars

\* response.json() settles on a build that reads the body after the headers
BodySettles(content) ==
  /\ stage \in BodyStages
  /\ BodyRead(content)
  /\ UNCHANGED <<streaming, callFlags>>
  /\ UNCHANGED nonAttemptVars

\* saveWeatherToCache or getWeatherFromCache settles (both catch their errors)
StorageSettles(found) ==
  /\ stage \in {"saving", "cacheRead"}
  /\ Return(IF stage = "saving" THEN "fresh"
            ELSE IF found THEN "cached"
            ELSE IF callFlags.dev THEN "mock" ELSE "unavailable")
  /\ UNCHANGED <<streaming, callFlags>>
  /\ UNCHANGED nonAttemptVars

CallFlags == [forceRefresh : BOOLEAN, dev : BOOLEAN, key : BOOLEAN]
FetchStatuses == {"ok", "notOk", "rejected"}
BodyContents == {"valid", "invalid", "throws"}

NextAttempt ==
  \/ \E flags \in CallFlags : CallFetchLiveWeather(flags)
  \/ AttemptClock
  \/ TimeoutFires
  \/ \E status \in FetchStatuses, content \in BodyContents : FetchResolves(status, content)
  \/ \E content \in BodyContents : BodySettles(content)
  \/ \E found \in BOOLEAN : StorageSettles(found)

\* the further components at rest
AuxIdle == RetryIdle /\ SeriesIdle /\ AnalyticsIdle /\ ScreenIdle /\ AttemptIdle

\* ───────────────────────── specifications ─────────────────────────────────
\* the live-weather pipeline; the resolver is not called
Init ==
  /\ InitPipeline
  /\ stations = << >>
  /\ point = 0
  /\ ResolverIdle
  /\ WeightsIdle
  /\ InterpIdle
  /\ ClimateIdle
  /\ AuxIdle

Next == NextPipeline

Spec == Init /\ [][Next]_vars

\* the station resolver over every catalog and query point; no fetch is running
InitResolverSpec ==
  /\ InitResolver
  /\ InitPipeline
  /\ ~DEV
  /\ AEMET_API_KEY
  /\ WeightsIdle
  /\ InterpIdle
  /\ ClimateIdle
  /\ AuxIdle

\* a build with no fetch running and the resolver at rest
Quiescent ==
  /\ InitPipeline
  /\ ~DEV
  /\ AEMET_API_KEY
  /\ stations = << >>
  /\ point = 0
  /\ ResolverIdle

SpecResolver == InitResolverSpec /\ [][NextResolver]_vars

\* calculateDistanceWeights applied to every list of distances
InitWeights ==
  /\ Quiescent
  /\ distances \in DistanceLists
  /\ weights = << >>
  /\ InterpIdle
  /\ ClimateIdle
  /\ AuxIdle

SpecWeights == InitWeights /\ [][NextWeights]_vars

\* the two interpolating operations over the catalogs above
InitInterp ==
  /\ InitPipeline
  /\ ~DEV
  /\ AEMET_API_KEY
  /\ stations \in InterpCatalogs
  /\ point = 0
  /\ ResolverIdle
  /\ WeightsIdle
  /\ InterpIdle
  /\ ClimateIdle
  /\ AuxIdle

SpecInterp == InitInterp /\ [][NextInterp]_vars

\* the climatology operations over every dataset of the store
InitClimate ==
  /\ Quiescent
  /\ WeightsIdle
  /\ iop = "none" /\ ipc = "idle" /\ queried = << >> /\ results = << >>
  /\ completed = << >>
  /\ interpolated = NoInterpolated /\ interpolatedSun = NoInterpolatedSun
  /\ weather_data \in Datasets
  /\ isNorthern \in BOOLEAN
  /\ cpc = "idle"
  /\ cargs = NoArgs
  /\ sunResult = NoSunChance
  /\ weeklyData = << >>
  /\ bestWeeks = << >>
  /\ AuxIdle

SpecClimate == InitClimate /\ [][NextClimate]_vars

\* the live-weather pipeline of one station in a process whose two cache tiers
\* already hold an entry of another station
OtherEntry(t) == AemetSnapshot(Observation(Num(214), Num(650), Num(123), Num(0), Num(100),
                                           Str("fint")), isNightTime(t))
InitFrame ==
  /\ now \in StartTimes
  /\ ticks = 0
  /\ DEV \in BOOLEAN
  /\ AEMET_API_KEY \in BOOLEAN
  /\ inMemoryCache = [s \in Stations |->
                        IF s \in Requested THEN NoEntry
                        ELSE [present |-> TRUE, data |-> OtherEntry(now), timestamp |-> now]]
  /\ asyncStorage = [s \in Stations |->
                       IF s \in Requested THEN NoItem
                       ELSE [present |-> TRUE, data |-> JsonSnapshot(OtherEntry(now)),
                             timestamp |-> now, stationId |-> s]]
  /\ pc = "idle"
  /\ req = [stationId |-> "", forceRefresh |-> FALSE]
  /\ stages = << >>
  /\ pending = NoPending
  /\ result = NoResult
  /\ stations = << >>
  /\ point = 0
  /\ ResolverIdle
  /\ WeightsIdle
  /\ InterpIdle
  /\ ClimateIdle
  /\ AuxIdle

SpecFrame == InitFrame /\ [][NextPipeline]_vars

\* fetchPeriodData of the batch fetcher; every pending request and sleep ends
InitRetry ==
  /\ Quiescent
  /\ WeightsIdle
  /\ InterpIdle
  /\ ClimateIdle
  /\ AuxIdle

SpecRetry == InitRetry /\ [][NextRetry]_vars /\ WF_vars(NextRetry)

\* interpolateMissingTemperatures applied to every series on the days of SeriesDays
InitSeries ==
  /\ Quiescent
  /\ WeightsIdle
  /\ InterpIdle
  /\ ClimateIdle
  /\ RetryIdle
  /\ AnalyticsIdle
  /\ ScreenIdle
  /\ AttemptIdle
  /\ \E days \in SUBSET SeriesDays \ {{}} :
       \E means \in [days -> MeanValues], extremes \in [days -> ExtremeValues],
          descending \in BOOLEAN :
         allData = SeriesOf(Ascending(days), means, extremes, descending)
  /\ interpolatedData = << >>

SpecSeries == InitSeries /\ [][NextSeries]_vars

\* the result screen of one station, with or without a tier-1 entry of an
\* earlier visit
InitScreen ==
  /\ Quiescent
  /\ WeightsIdle
  /\ InterpIdle
  /\ ClimateIdle
  /\ RetryIdle
  /\ SeriesIdle
  /\ AnalyticsIdle
  /\ AttemptIdle
  /\ mounted = FALSE
  /\ period = 0
  /\ calls = 0
  /\ inFlight = {}
  /\ rateLimit \in {NoRateLimitEntry, EarlierEntry}

SpecScreen == InitScreen /\ [][NextScreen]_vars

\* the network attempts of one fetchLiveWeather call after another, on a
\* build whose fetch resolves with the whole response or at the headers; the
\* clock advances, armed timers fire and storage operations settle, while the
\* network owes no answer
InitAttempt ==
  /\ Quiescent
  /\ WeightsIdle
  /\ InterpIdle
  /\ ClimateIdle
  /\ RetryIdle
  /\ SeriesIdle
  /\ AnalyticsIdle
  /\ ScreenIdle
  /\ stage = "idle"
  /\ streaming \in BOOLEAN
  /\ timeoutId = FALSE
  /\ elapsed = 0
  /\ callFlags = NoFlags
  /\ returned = "none"

SpecAttempt ==
  /\ InitAttempt
  /\ [][NextAttempt]_vars
  /\ WF_vars(AttemptClock)
  /\ WF_vars(TimeoutFires)
  /\ WF_vars(\E found \in BOOLEAN : StorageSettles(found))

\* the analytics queue; timers fire and awaited promises settle
InitAnalytics ==
  /\ Quiescent
  /\ WeightsIdle
  /\ InterpIdle
  /\ ClimateIdle
  /\ AuxIdle

SpecAnalytics ==
  /\ InitAnalytics
  /\ [][NextAnalytics]_vars
  /\ WF_vars(FlushEventQueue(TRUE))
  /\ WF_vars(SessionSettles)
  /\ WF_vars(InsertSettles)

\* ───────────────────────── properties: live-weather pipeline ──────────────
Range(seq) == { seq[i] : i \in DOMAIN seq }
LastStage == IF stages = << >> THEN "none" ELSE stages[Len(stages)]

\* snapshots the sources can deliver, and the mock snapshots
SourceSnapshots ==
  { AemetSnapshot(o, n) : o \in AemetObservations, n \in BOOLEAN }
    \cup { OpenMeteoSnapshot(c, n) : c \in OpenMeteoCurrents, n \in BOOLEAN }
MockSnapshots == { MOCK_WEATHER_DATA[i] : i \in MockIndexes }

\* the step is an entry into fetchLiveWeather
CallStep == pc \in {"idle", "done"} /\ ticks' = ticks

\* C1: a call with a station id and forceRefresh=false that finds a tier-1 entry
\* younger than 15 minutes returns that entry tagged from cache at once: no
\* source request is issued and the persistent cache is neither read nor written.
C1_RateLimitHit ==
  [][ ( /\ CallStep
        /\ req'.stationId # ""
        /\ ~req'.forceRefresh
        /\ inMemoryCache[req'.stationId].present
        /\ now - inMemoryCache[req'.stationId].timestamp < 15 * 60 * 1000 )
      => ( /\ pc' = "done"
           /\ result' = ReturnData(inMemoryCache[req'.stationId].data, TRUE)
           /\ stages' = <<"rateLimit">>
           /\ asyncStorage' = asyncStorage
           /\ inMemoryCache' = inMemoryCache ) ]_vars

\* a call answered from a tier-1 entry that is at least a second old
C1_Witness ==
  /\ pc = "done"
  /\ stages = <<"rateLimit">>
  /\ result.kind = "data" /\ result.isFromCache
  /\ req.stationId # ""
  /\ now - inMemoryCache[req.stationId].timestamp >= 1000
  /\ now - inMemoryCache[req.stationId].timestamp < 15 * 60 * 1000

NoCacheStage == "rateLimit" \notin Range(stages) /\ "persistentCache" \notin Range(stages)

\* C2 as stated: with forceRefresh=true no cache tier is read and the result is
\* a fresh snapshot of the primary or fallback source, or the unavailable result.
C2_Original ==
  (pc = "done" /\ req.forceRefresh) =>
    /\ NoCacheStage
    /\ \/ result = ReturnNull
       \/ /\ result.kind = "data" /\ ~result.isFromCache
          /\ LastStage \in {"primary", "fallback"}

\* C2 amended: with forceRefresh=true no cache tier is read and the result is a
\* fresh snapshot of the primary or fallback source, or the terminal result:
\* unavailable in a production build, a mock snapshot in a development build.
C2_ForceRefresh ==
  (pc # "idle" /\ req.forceRefresh) =>
    /\ NoCacheStage
    /\ pc # "readingCache"
    /\ pc = "done" =>
         /\ ~result.isFromCache
         /\ \/ /\ LastStage \in {"primary", "fallback"}
               /\ result.kind = "data" /\ result.data \in SourceSnapshots
            \/ /\ LastStage = "terminal"
               /\ IF DEV THEN result.kind = "data" /\ result.data \in MockSnapshots
                  ELSE result = ReturnNull

\* a forced refresh ended unavailable while both tiers held a usable entry
C2_Witness ==
  /\ pc = "done" /\ req.forceRefresh /\ req.stationId # ""
  /\ result = ReturnNull
  /\ inMemoryCache[req.stationId].present
  /\ now - inMemoryCache[req.stationId].timestamp < 15 * 60 * 1000
  /\ asyncStorage[req.stationId].present
  /\ now - asyncStorage[req.stationId].timestamp <= 24 * 60 * 60 * 1000
  /\ ValidStructure(asyncStorage[req.stationId].data)

StageRank(st) ==
  CASE st = "rateLimit" -> 1
    [] st = "primary" -> 2
    [] st = "fallback" -> 3
    [] st = "persistentCache" -> 4
    [] st = "terminal" -> 5

C3_Order ==
  /\ \A i, j \in DOMAIN stages : i < j => StageRank(stages[i]) < StageRank(stages[j])
  /\ "primary" \in Range(stages) => (req.stationId # "" /\ AEMET_API_KEY)
  /\ ("fallback" \in Range(stages) /\ "primary" \notin Range(stages))
       => (req.stationId = "" \/ ~AEMET_API_KEY)
  /\ "persistentCache" \in Range(stages) => "fallback" \in Range(stages)
  /\ "terminal" \in Range(stages) => "fallback" \in Range(stages)
  /\ pc \in {"aemetMeta", "aemetData"} => LastStage = "primary"
  /\ pc = "openMeteo" => LastStage = "fallback"
  /\ pc = "readingCache" => LastStage = "persistentCache"

\* a stage that yields a snapshot is the last one the request enters
C3_YieldEnds ==
  /\ ( /\ pc \notin {"idle", "done"}
       /\ \/ pc' = "saving"
          \/ pc' = "done" /\ result'.kind = "data" /\ stages'[Len(stages')] # "terminal" )
     => stages' = stages
  /\ pc = "saving" => (stages' = stages /\ pc' \in {"saving", "done"})

\* C3: the stages run in the order rate-limit check, primary, fallback,
\* persistent cache, terminal; the fallback is queried only after the primary
\* was skipped or failed, the persistent cache only after the fallback failed,
\* and no stage is entered after one yielded a snapshot.
C3_StageOrder == [](C3_Order) /\ [][C3_YieldEnds]_vars

\* a request that went through every stage down to a persistent-cache hit
C3_Witness ==
  /\ pc = "done"
  /\ stages = <<"rateLimit", "primary", "fallback", "persistentCache">>
  /\ result.kind = "data" /\ result.isFromCache

FreshFromSource ==
  /\ pc = "done"
  /\ result.kind = "data" /\ ~result.isFromCache
  /\ LastStage \in {"primary", "fallback"}

\* C4 as stated: every call that obtains a snapshot from a source writes it to
\* the cache tiers before returning it.
C4_Original ==
  FreshFromSource =>
    \E s \in Stations : inMemoryCache[s].present /\ inMemoryCache[s].data = result.data

C4_Save ==
  /\ (pc = "saving" /\ pc' # "saving") =>
       /\ req.stationId # ""
       /\ pc' = "done"
       /\ result' = ReturnData(pending.data, FALSE)
       /\ inMemoryCache'[req.stationId] =
            [present |-> TRUE, data |-> pending.data, timestamp |-> now]
       /\ \/ asyncStorage' = asyncStorage
          \/ asyncStorage' = [asyncStorage EXCEPT ![req.stationId] =
               [present |-> TRUE, data |-> JsonSnapshot(pending.data),
                timestamp |-> pending.timestamp, stationId |-> req.stationId]]
  /\ ( /\ pc \in {"aemetMeta", "aemetData", "openMeteo"}
       /\ pc' = "done" /\ result'.kind = "data"
       /\ stages'[Len(stages')] # "terminal" )
     => req.stationId = ""

\* C4 amended: every call made with a station id that obtains a snapshot from
\* the primary or the fallback source attempts to write that snapshot to both
\* tiers before returning it with isFromCache=false; a failed persistent write
\* changes neither the result nor the tier-1 write. A call without a station
\* id returns the fallback snapshot without writing any cache.
C4_WriteThrough == [][C4_Save]_vars

\* a fresh snapshot returned and kept in tier 1 although the persistent write failed
C4_Witness ==
  /\ FreshFromSource
  /\ req.stationId # ""
  /\ inMemoryCache[req.stationId].present
  /\ inMemoryCache[req.stationId].data = result.data
  /\ ~asyncStorage[req.stationId].present

C6_RoundTripStep ==
  ( /\ pc = "saving" /\ pc' = "done"
    /\ asyncStorage' = saveWeatherToCache(asyncStorage, req.stationId, pending.data,
                                          pending.timestamp, FALSE) )
  => LET within == getWeatherFromCache(asyncStorage', req.stationId,
                     pending.timestamp + 24 * 60 * 60 * 1000, FALSE, FALSE)
         after == getWeatherFromCache(asyncStorage', req.stationId,
                     pending.timestamp + 24 * 60 * 60 * 1000 + 1000, FALSE, FALSE)
     IN /\ within.hit /\ within.data = pending.data
        /\ ~after.hit /\ ~after.store[req.stationId].present

\* C6: a snapshot written by saveWeatherToCache is returned with identical
\* field values by a getWeatherFromCache within 24 hours of the write, and a
\* read 24 hours and one second after the write misses and removes the entry.
C6_RoundTrip == [][C6_RoundTripStep]_vars

\* C7: a snapshot returned from the persistent cache has every field of the
\* Live Weather Snapshot well typed, the observation timestamp included.
C7_Validated ==
  (pc = "done" /\ result.kind = "data" /\ result.isFromCache
     /\ LastStage = "persistentCache") =>
    /\ ValidStructure(result.data)
    /\ TypeOf(result.data.timestamp) = "string"

\* ───────────────────────── properties: station resolver ───────────────────
Min(S) == CHOOSE m \in S : \A x \in S : m <= x

DistanceTo(i) == haversineDistance(point, stations[i].latitude)
HighAltitudeIds == { i \in DOMAIN stations : stations[i].isHighAltitude }
RegularIds == { i \in DOMAIN stations : ~stations[i].isHighAltitude }
NearestHighDistance == Min({ DistanceTo(i) : i \in HighAltitudeIds })
NearestRegularDistance == Min({ DistanceTo(i) : i \in RegularIds })

\* C8: with forceHighAltitude on a catalog holding both classes, the nearest
\* regular station is returned with the fallback flag when dH > 3*dR and
\* dR < 40 km, and the nearest high-altitude station without the flag
\* otherwise, whatever excludeHighAltitude is.
C8_ForceHighAltitude ==
  ( /\ call.op = "findNearestStation" /\ call.forceHighAltitude
    /\ HighAltitudeIds # {} /\ RegularIds # {} )
  => /\ nearest.found
     /\ IF NearestHighDistance > 3 * NearestRegularDistance /\ NearestRegularDistance < 40 * 1000
        THEN /\ nearest.stationId \in RegularIds
             /\ DistanceTo(nearest.stationId) = NearestRegularDistance
             /\ nearest.isHighAltitudeFallback
        ELSE /\ nearest.stationId \in HighAltitudeIds
             /\ DistanceTo(nearest.stationId) = NearestHighDistance
             /\ ~nearest.isHighAltitudeFallback

\* the high-altitude station kept although more than three times farther,
\* because the regular station is not within 40 km
C8_Witness ==
  /\ call.op = "findNearestStation" /\ call.forceHighAltitude
  /\ HighAltitudeIds # {} /\ RegularIds # {}
  /\ NearestHighDistance > 3 * NearestRegularDistance
  /\ NearestRegularDistance >= 40 * 1000
  /\ nearest.found /\ nearest.stationId \in HighAltitudeIds

C10_Original ==
  /\ call.op = "findNearestStation" => (~nearest.found <=> stations = << >>)
  /\ call.op = "findNearestStations" => (nearestList = << >> <=> stations = << >>)

EligibleIds == IF call.excludeHighAltitude THEN RegularIds ELSE DOMAIN stations

\* C10 amended: findNearestStation returns null exactly on the empty catalog;
\* findNearestStations returns the empty list exactly when no station is
\* eligible: the catalog is empty, or excludeHighAltitude is set and every
\* station is of the high-altitude class.
C10_NoResult ==
  /\ call.op = "findNearestStation" => (~nearest.found <=> stations = << >>)
  /\ call.op = "findNearestStations" => (nearestList = << >> <=> EligibleIds = {})

\* the empty list returned on a catalog that holds stations
C10_Witness ==
  /\ call.op = "findNearestStations"
  /\ stations # << >>
  /\ nearestList = << >>

ReturnedIds == { nearestList[i].stationId : i \in DOMAIN nearestList }

\* C11: findNearestStations returns exactly min(count, eligible stations)
\* distinct eligible stations, in ascending order of true distance to the
\* point, omitting no eligible station closer than a returned one, stations at
\* equal distance in catalog iteration order.
C11_NearestStations ==
  call.op = "findNearestStations" =>
    /\ Len(nearestList) = Min({call.count, Cardinality(EligibleIds)})
    /\ Cardinality(ReturnedIds) = Len(nearestList)
    /\ ReturnedIds \subseteq EligibleIds
    /\ \A i, j \in DOMAIN nearestList :
         i < j => /\ DistanceTo(nearestList[i].stationId) <= DistanceTo(nearestList[j].stationId)
                  /\ DistanceTo(nearestList[i].stationId) = DistanceTo(nearestList[j].stationId)
                       => nearestList[i].stationId < nearestList[j].stationId
    /\ \A e \in EligibleIds \ ReturnedIds, r \in ReturnedIds : DistanceTo(e) >= DistanceTo(r)

\* ───────────────────────── properties: interpolator ──────────────────────
\* the weight of a station times the square of its floored distance
Scaled(i) == FracMul(weights[i], FracMul(Km(MaxFloor(distances[i])), Km(MaxFloor(distances[i]))))

\* C12: calculateDistanceWeights returns one weight per distance, each strictly
\* positive and proportional to 1/max(d_i, 0.1)^2, and the weights sum to 1.
C12_Weights ==
  weights # << >> =>
    /\ Len(weights) = Len(distances)
    /\ \A i \in DOMAIN weights : IsFinite(weights[i]) /\ weights[i].num > 0
    /\ FracSum(weights) = Frac(1, 1)
    /\ \A i, j \in DOMAIN weights : Scaled(i) = Scaled(j)

\* weights computed for a list holding a distance under the floor and larger ones
C12_Witness ==
  /\ weights # << >>
  /\ Len(distances) = 3
  /\ distances[1] = 0 /\ distances[2] = 60 /\ distances[3] = 120
  /\ weights[1].num * weights[2].den > 1000 * weights[2].num * weights[1].den

\* ───────────────────────── properties: interpolating operations ──────────
\* did query i return data: a result of fetchLiveWeather, or a sun-chance
\* result over at least one day
Returned(i) ==
  IF iop = "weather" THEN results[i].weather.kind = "data" ELSE results[i].sun.total_days > 0
ReturnedQueries == { i \in DOMAIN results : Returned(i) }
\* the k-th query that returned data, in the order of the queries
Kth(k) == CHOOSE j \in ReturnedQueries : Cardinality({ x \in ReturnedQueries : x < j }) = k - 1

Contributors == IF iop = "weather" THEN interpolated.stations ELSE interpolatedSun.stations
SingleStationMode ==
  IF iop = "weather" THEN interpolated.isSingleStation ELSE interpolatedSun.isSingleStation
QueriedIds == { queried[i].stationId : i \in DOMAIN queried }

\* the result is the value of query i unchanged, in single-station mode with weight 1
Verbatim(i) ==
  /\ SingleStationMode
  /\ Len(Contributors) = 1
  /\ Contributors[1].stationId = queried[i].stationId
  /\ Contributors[1].weight = Frac(1, 1)
  /\ IF iop = "weather"
     THEN /\ interpolated.kind = "data"
          /\ interpolated.data = results[i].weather.data
          /\ interpolated.isFromCache = results[i].weather.isFromCache
     ELSE /\ interpolatedSun.kind = "data"
          /\ interpolatedSun.value = results[i].sun

\* C13: when the nearest eligible station is within 5 km only that station is
\* queried and its value is returned verbatim in single-station mode with
\* weight 1; otherwise the (up to) 3 nearest eligible stations are all queried
\* and, when at least two of them return data, the result is in blended mode.
C13_Switching ==
  (ipc # "idle" /\ RegularIds # {}) =>
    IF NearestRegularDistance < 5 * 1000
    THEN /\ Len(queried) = 1
         /\ DistanceTo(queried[1].stationId) = NearestRegularDistance
         /\ (ipc = "done" /\ Returned(1)) => Verbatim(1)
    ELSE /\ Len(queried) = Min({3, Cardinality(RegularIds)})
         /\ Cardinality(QueriedIds) = Len(queried)
         /\ QueriedIds \subseteq RegularIds
         /\ \A e \in RegularIds \ QueriedIds, q \in QueriedIds : DistanceTo(e) >= DistanceTo(q)
         /\ (ipc = "done" /\ Cardinality(ReturnedQueries) >= 2) => ~SingleStationMode

\* the blend of the queries that returned data, weighted over that subset
SubsetWeights ==
  calculateDistanceWeights([k \in 1..Cardinality(ReturnedQueries) |->
                              queried[Kth(k)].distance \div 100])
SubsetBlend(value(_)) ==
  Blend([k \in 1..Cardinality(ReturnedQueries) |-> value(Kth(k))], SubsetWeights)
SubsetMean(value(_)) ==
  FracRound(Frac(SumInts([k \in 1..Cardinality(ReturnedQueries) |-> value(Kth(k))]),
                 Cardinality(ReturnedQueries)))

Temperature(i) == ToFrac(results[i].weather.data.temperature)
Humidity(i) == ToFrac(results[i].weather.data.humidity)
WindSpeed(i) == ToFrac(results[i].weather.data.windSpeed)
SunChanceOf(i) == Frac(results[i].sun.sun_chance, 1)
SunnyDays(i) == results[i].sun.sunny_days
TotalDays(i) == results[i].sun.total_days

\* the result is the blend of exactly the queries that returned data
BlendOfReturned ==
  /\ ~SingleStationMode
  /\ Len(Contributors) = Cardinality(ReturnedQueries)
  /\ \A k \in DOMAIN Contributors :
       /\ Contributors[k].stationId = queried[Kth(k)].stationId
       /\ Contributors[k].weight = RoundWeight(SubsetWeights[k])
  /\ IF iop = "weather"
     THEN /\ interpolated.kind = "data"
          /\ interpolated.data.temperature = RoundToJs(SubsetBlend(Temperature))
          /\ interpolated.data.humidity = RoundToJs(SubsetBlend(Humidity))
          /\ interpolated.data.windSpeed = RoundToJs(SubsetBlend(WindSpeed))
     ELSE /\ interpolatedSun.kind = "data"
          /\ interpolatedSun.value.sun_chance = FracRound(SubsetBlend(SunChanceOf))
          /\ interpolatedSun.value.sunny_days = SubsetMean(SunnyDays)
          /\ interpolatedSun.value.total_days = SubsetMean(TotalDays)

\* the explicit empty result: no value and no contributing station
EmptyResult ==
  IF iop = "weather" THEN interpolated = InterpolatedNull
  ELSE /\ interpolatedSun.value = ZeroSunChance
       /\ interpolatedSun.stations = << >>

C14_Cases ==
  CASE Cardinality(ReturnedQueries) = 0 -> EmptyResult
    [] Cardinality(ReturnedQueries) = 1 -> Verbatim(Kth(1))
    [] OTHER -> BlendOfReturned

\* C14 as stated: the result of either operation is computed from exactly the
\* queried stations that returned data: their reweighted blend when two or more
\* did, the value of the one that did in single-station mode with weight 1,
\* and the empty result without contributing stations when none did.
C14_Original == (ipc = "done" /\ queried # << >>) => C14_Cases

\* C14 amended: as stated for the stations queried in parallel (nearest station
\* at 5 km or more) and for fetchInterpolatedWeather; when
\* calculateInterpolatedSunChance queries only the closest station (nearer than
\* 5 km) and that station has no data, the result is the zero-data result in
\* single-station mode listing that station with weight 1.
C14_Subset ==
  (ipc = "done" /\ queried # << >>) =>
    IF iop = "sunChance" /\ Len(nearestList) > 0
         /\ nearestList[1].distance < 5 * 1000 /\ ~Returned(1)
    THEN /\ Verbatim(1)
         /\ interpolatedSun.value = ZeroSunChance
    ELSE C14_Cases

\* two of three stations queried in parallel returned data and were blended
C14_Witness ==
  /\ ipc = "done" /\ iop = "weather"
  /\ Len(queried) = 3
  /\ ReturnedQueries = {1, 3}
  /\ interpolated.kind = "data" /\ ~interpolated.isSingleStation
  /\ Len(interpolated.stations) = 2

\* the blended field f is a number between the least and the greatest value
\* the contributing stations report for f
Between(f) ==
  /\ interpolated.data[f].t = "number"
  /\ \A i \in ReturnedQueries : results[i].weather.data[f].t = "number"
  /\ \E i \in ReturnedQueries : results[i].weather.data[f].n <= interpolated.data[f].n
  /\ \E i \in ReturnedQueries : results[i].weather.data[f].n >= interpolated.data[f].n

\* stations at 6, 8 and 12 km reporting 20, 22 and 24 degrees
Example_6_8_12 ==
  /\ Len(queried) = 3 /\ ReturnedQueries = {1, 2, 3}
  /\ queried[1].distance = 6000 /\ queried[2].distance = 8000 /\ queried[3].distance = 12000
  /\ results[1].weather.data.temperature = Whole(20)
  /\ results[2].weather.data.temperature = Whole(22)
  /\ results[3].weather.data.temperature = Whole(24)

BlendedWeather ==
  /\ ipc = "done" /\ iop = "weather"
  /\ interpolated.kind = "data" /\ ~interpolated.isSingleStation

\* C15: in a blended live-weather result temperature, humidity and wind speed
\* each lie between the minimum and the maximum of the contributing stations'
\* values; for stations at 6, 8 and 12 km reporting 20, 22 and 24 degrees the
\* blended temperature lies strictly between 20 and 22 and is closer to 20
\* than to 24.
C15_Blend ==
  BlendedWeather =>
    /\ Between("temperature") /\ Between("humidity") /\ Between("windSpeed")
    /\ Example_6_8_12 =>
         /\ interpolated.data.temperature.n > 200
         /\ interpolated.data.temperature.n < 220
         /\ interpolated.data.temperature.n - 200 < 240 - interpolated.data.temperature.n

\* ───────────────────────── properties: malformed source responses ────────
\* responses in which temperature, humidity and wind speed are all numbers
WellFormedObservations ==
  { o \in AemetObservations : o.ta.t = "number" /\ o.hr.t = "number" /\ o.vv.t = "number" }
WellFormedCurrents ==
  { c \in OpenMeteoCurrents : /\ c.temperature_2m.t = "number"
                              /\ c.relative_humidity_2m.t = "number"
                              /\ c.wind_speed_10m.t = "number" }
\* the snapshots of those responses
WellFormedSnapshots ==
  { AemetSnapshot(o, n) : o \in WellFormedObservations, n \in BOOLEAN }
    \cup { OpenMeteoSnapshot(c, n) : c \in WellFormedCurrents, n \in BOOLEAN }

\* C20: a source response with a missing or malformed measurement field counts
\* as a failed attempt: every snapshot a call returns from a source or from a
\* cache, and every snapshot held in either cache tier, was built from a
\* response whose temperature, humidity and wind speed are all numbers.
C20_AllOrNothing ==
  /\ (pc = "done" /\ result.kind = "data" /\ LastStage # "terminal") =>
       result.data \in WellFormedSnapshots \cup { JsonSnapshot(d) : d \in WellFormedSnapshots }
  /\ \A s \in Stations :
       /\ inMemoryCache[s].present => inMemoryCache[s].data \in WellFormedSnapshots
       /\ asyncStorage[s].present =>
            asyncStorage[s].data \in { JsonSnapshot(d) : d \in WellFormedSnapshots }

\* ───────────────────────── properties: climatology ───────────────────────
\* the records of the store inside the month/day window of the running call
FilteredWindow ==
  { row \in weather_data : /\ row.date.month = cargs.month
                           /\ row.date.day >= cargs.dayStart
                           /\ row.date.day <= cargs.dayEnd }
\* at least one record of the window has non-null sun-hours
HasSunHours == \E row \in FilteredWindow : row.sol.t # "null"
\* sun-hours strictly above 6 and precipitation null or at most 0, in tenths
SunnyDay(row) ==
  /\ row.sol.t = "number" /\ row.sol.n > 60
  /\ (row.precip.t = "null" \/ (row.precip.t = "number" /\ row.precip.n <= 0))

C16_Step ==
  (SunChanceQuerySettles("data") /\ HasSunHours) =>
     /\ sunResult'.sunny_days = Cardinality({ row \in FilteredWindow : SunnyDay(row) })
     /\ sunResult'.total_days = Cardinality(FilteredWindow)

\* C16: when at least one record of the filtered window has non-null
\* sun-hours, calculateSunChance counts exactly the days whose sun-hours is
\* non-null and strictly greater than 6 and whose precipitation is null or
\* <= 0: a day with sol 6.0 is not counted, a day with sol 6.1 and precip 0 is,
\* a day with sol 7.0 and precip 0.5 is not.
C16_SunnyDays == [][C16_Step]_vars

\* a call returned over a window holding the three days of the boundary: only
\* the day with sol 6.1 and precip 0 was counted
C16_Witness ==
  /\ cpc = "done"
  /\ cargs.month = 3
  /\ FilteredWindow = { Row(2023, 3, 15, Num(60), Num(0), Num(260)),
                        Row(2023, 3, 16, Num(70), Num(5), Null),
                        Row(2023, 3, 18, Num(61), Num(0), Num(300)) }
  /\ sunResult = SunChanceResult(1, 3, 33, "low")

C17_Step ==
  SunChanceQuerySettles("data") =>
     LET r == sunResult'
     IN /\ cpc' = "done"
        /\ r.total_days = Cardinality(FilteredWindow)
        /\ r.confidence = "high" <=> (r.total_days >= 50 /\ HasSunHours)
        /\ r.confidence = "medium" <=> (~(r.total_days >= 50 /\ HasSunHours) /\ r.total_days >= 20)
        /\ r.confidence = "low" <=> r.total_days < 20
        /\ r.total_days = 0 => (r.sun_chance = 0 /\ r.confidence = "low")

\* C17: calculateSunChance grades confidence "high" exactly when total_days >= 50
\* and sun-hours data is present in the window, otherwise "medium" exactly when
\* total_days >= 20, otherwise "low"; zero total days give percentage 0 with
\* confidence "low", returned as a result.
C17_Confidence == [][C17_Step]_vars

\* a call returned over a window of exactly 50 days with sun-hours data
C17_Witness ==
  /\ cpc = "done"
  /\ cargs # NoArgs
  /\ Cardinality(FilteredWindow) = 50
  /\ HasSunHours
  /\ sunResult.total_days = 50
  /\ sunResult.confidence = "high"

C18_Step ==
  /\ \A outcome \in {"error", "throw", "noData"} :
       SunChanceQuerySettles(outcome) => (cpc' = "done" /\ sunResult' = ZeroSunChance)
  /\ \A outcome \in {"error", "throw", "noData"} :
       BestWeeksQuerySettles(outcome) => (cpc' = "done" /\ bestWeeks' = << >>)

\* C18: a failure of the historical store, an error value returned by the
\* query or an exception thrown by it, makes calculateSunChance return the
\* zero-data result (0 sunny days, 0 total days, 0 %, "low"), the result it
\* returns when the store holds no rows, and makes getBestWeeksForStation
\* return the empty list; both calls return.
C18_Degrades == [][C18_Step]_vars

\* a call over a window that holds records returned the zero-data result
C18_Witness ==
  /\ cpc = "done"
  /\ cargs # NoArgs
  /\ FilteredWindow # {}
  /\ sunResult = ZeroSunChance

\* the starts of the windows: 1, 8, 15, ..., 358
WindowStarts == { 1 + 7 * k : k \in 0..51 }
\* the records of the store that fall on day of year d
RowsOn(d) == { row \in weather_data : DayOfYear(row.date) = d }
\* the windows of a weekly list in which day d was counted
WindowsOf(weekly, d) == { i \in DOMAIN weekly : d \in weekly[i].days }
\* the windows start at 1, 8, ..., 358 in increasing order and do not overlap
Stepping(weekly) ==
  /\ \A i \in DOMAIN weekly : weekly[i].start \in WindowStarts
  /\ \A i, j \in DOMAIN weekly : i < j => weekly[i].start < weekly[j].start
  /\ \A i, j \in DOMAIN weekly : i # j => weekly[i].days \cap weekly[j].days = {}
RECURSIVE SumTotalDays(_)
SumTotalDays(weekly) ==
  IF weekly = << >> THEN 0 ELSE Head(weekly).totalDays + SumTotalDays(Tail(weekly))

C19_OriginalStep ==
  BestWeeksQuerySettles("data") =>
     /\ Stepping(weeklyData')
     /\ \A d \in 1..365 : RowsOn(d) # {} => Cardinality(WindowsOf(weeklyData', d)) = 1
     /\ \A i \in DOMAIN weeklyData' :
          weeklyData'[i].start = 358 => weeklyData'[i].days = 358..365
     /\ SumTotalDays(weeklyData') = Cardinality(UNION { RowsOn(d) : d \in 1..365 })

\* C19 as stated: the windows start at days 1, 8, ..., 358, do not overlap,
\* every day of year from 1 to 365 is counted in exactly one window and the
\* final window covers days 358 to 365.
C19_Original == [][C19_OriginalStep]_vars

C19_Step ==
  BestWeeksQuerySettles("data") =>
     /\ Stepping(weeklyData')
     /\ \A i \in DOMAIN weeklyData' :
          /\ weeklyData'[i].days = weeklyData'[i].start..(weeklyData'[i].start + 6)
          /\ weeklyData'[i].totalDays =
               Cardinality(UNION { RowsOn(d) : d \in weeklyData'[i].days })
     /\ \A d \in 1..364 : RowsOn(d) # {} => Cardinality(WindowsOf(weeklyData', d)) = 1
     /\ \A d \in 365..366 : WindowsOf(weeklyData', d) = {}
     /\ SumTotalDays(weeklyData') = Cardinality(UNION { RowsOn(d) : d \in 1..364 })
     /\ \A i \in DOMAIN bestWeeks' :
          /\ bestWeeks'[i].weekStart \in WindowStarts
          /\ bestWeeks'[i].weekEnd = bestWeeks'[i].weekStart + 6

\* C19, amended: the windows start at days 1, 8, ..., 358, each covers 7 days
\* and they do not overlap; every day of year from 1 to 364 is counted in
\* exactly one window, the final window covers days 358 to 364, and the
\* records of day 365 (and 366) are counted in no window.
C19_Windows == [][C19_Step]_vars

\* the store holds records of 24, 30 and 31 December 2023 and the final window
\* counted two of them
C19_Witness ==
  /\ cpc = "done"
  /\ cargs = NoArgs
  /\ RowsOn(365) # {}
  /\ \E i \in DOMAIN weeklyData :
       /\ weeklyData[i].start = 358
       /\ weeklyData[i].totalDays = 2
       /\ Cardinality(UNION { RowsOn(d) : d \in 358..365 }) = 3

\* ───────────────────────── properties: freshness of the cache tiers ───────
\* the step reads tier 1: an entry into fetchLiveWeather that consults the
\* rate-limit cache of the requested station
Tier1Read == CallStep /\ ChecksRateLimit(req'.stationId, req'.forceRefresh)
\* the step reads tier 2: getWeatherFromCache settles
Tier2Read == pc = "readingCache" /\ pc' = "done"
\* the age, at the read, of the entry of the requested station
Tier1Age == now - inMemoryCache[req'.stationId].timestamp
Tier2Age == now - asyncStorage[req.stationId].timestamp
\* the step returns a snapshot tagged isFromCache
ReturnsCached == result'.kind = "data" /\ result'.isFromCache

C21_OriginalStep ==
  /\ (Tier1Read /\ ReturnsCached) => Tier1Age < 15 * 60 * 1000
  /\ (Tier2Read /\ ReturnsCached) => Tier2Age <= 24 * 60 * 60 * 1000
  /\ (Tier1Read /\ inMemoryCache[req'.stationId].present /\ Tier1Age > 15 * 60 * 1000) =>
       (~inMemoryCache'[req'.stationId].present /\ ~ReturnsCached)
  /\ (Tier2Read /\ asyncStorage[req.stationId].present /\ Tier2Age > 24 * 60 * 60 * 1000) =>
       (~asyncStorage'[req.stationId].present /\ ~ReturnsCached)

C21_Step ==
  /\ (Tier1Read /\ ReturnsCached) =>
       /\ inMemoryCache[req'.stationId].present
       /\ Tier1Age <= 15 * 60 * 1000
  /\ (Tier2Read /\ ReturnsCached) =>
       /\ asyncStorage[req.stationId].present
       /\ Tier2Age <= 24 * 60 * 60 * 1000
  /\ (Tier1Read /\ inMemoryCache[req'.stationId].present /\ Tier1Age > 15 * 60 * 1000) =>
       (~inMemoryCache'[req'.stationId].present /\ ~ReturnsCached)
  /\ (Tier2Read /\ asyncStorage[req.stationId].present /\ Tier2Age > 24 * 60 * 60 * 1000) =>
       /\ ~ReturnsCached
       /\ asyncStorage' \in {asyncStorage, [asyncStorage EXCEPT ![req.stationId] = NoItem]}

StepStation == req'.stationId
\* the step belongs to an execution that holds no snapshot of a source
NoSourceSnapshot == pc # "saving"

C28_Step ==
  /\ \A s \in Stations :
       s # StepStation =>
         (inMemoryCache'[s] = inMemoryCache[s] /\ asyncStorage'[s] = asyncStorage[s])
  /\ (NoSourceSnapshot /\ StepStation \in Stations) =>
       /\ inMemoryCache'[StepStation] # inMemoryCache[StepStation] =>
            /\ inMemoryCache'[StepStation] = NoEntry
            /\ now - inMemoryCache[StepStation].timestamp > 15 * 60 * 1000
       /\ asyncStorage'[StepStation] # asyncStorage[StepStation] =>
            /\ asyncStorage'[StepStation] = NoItem
            /\ now - asyncStorage[StepStation].timestamp > 24 * 60 * 60 * 1000
  /\ (NoSourceSnapshot /\ req'.forceRefresh) =>
       (inMemoryCache' = inMemoryCache /\ asyncStorage' = asyncStorage)

\* C28: a fetchLiveWeather call that obtains no snapshot from the primary or
\* the fallback source creates or overwrites no entry in either cache tier and
\* touches no entry of any other station; the only cache change it makes is
\* removing an entry of the requested station that it found stale on read, and
\* a failed call with forceRefresh=true leaves the entries of both tiers intact.
C28_Frame == [][C28_Step]_vars

\* a forced call failed in a production build while both tiers held an entry
\* of the requested station, the tier-1 entry older than 15 minutes
C28_Witness ==
  /\ pc = "done"
  /\ req.stationId \in Stations
  /\ req.forceRefresh
  /\ result.kind = "null"
  /\ inMemoryCache[req.stationId].present
  /\ now - inMemoryCache[req.stationId].timestamp > 15 * 60 * 1000
  /\ asyncStorage[req.stationId].present
  /\ \A s \in Stations \ {req.stationId} :
       inMemoryCache[s].present /\ asyncStorage[s].present

\* ───────────────────────── properties: the two resolver operations ────────
\* C29: for every catalog, query point and value of excludeHighAltitude, the
\* first element of findNearestStations(point, 1, excludeHighAltitude) is the
\* station findNearestStation(point, excludeHighAltitude, false) returns: both
\* name the same station, or neither returns one.
C29_Agree ==
  (call.op = "findNearestStations" /\ call.count = 1) =>
    LET one == findNearestStation(stations, point, call.excludeHighAltitude, FALSE)
    IN IF nearestList = << >> THEN ~one.found
       ELSE one.found /\ one.stationId = nearestList[1].stationId

\* ───────────────────────── properties: confidence of the blend ────────────
\* calculateSunChance grades a result of 50 days or more "high" exactly when
\* its window holds sun-hours data: a result of 50 days or more graded lower
\* comes from a station without sun-hours data
LacksSunHours(r) == r.total_days >= 50 /\ r.confidence # "high"
\* the results of the stations that contribute to the returned value
ContributingSun ==
  { results[i].sun : i \in { j \in DOMAIN results :
                             Len(queried) = 1 \/ results[j].sun.total_days > 0 } }

\* C27: every result calculateInterpolatedSunChance returns, single-station
\* or blended, is graded "high" only if its total_days is at least 50 and
\* sun-hours data is present for the contributing stations; a blend of
\* stations none of which has sun-hours data is never graded "high".
C27_Confidence ==
  (iop = "sunChance" /\ ipc = "done" /\ interpolatedSun.kind = "data"
     /\ interpolatedSun.value.confidence = "high") =>
    /\ interpolatedSun.value.total_days >= 50
    /\ \E r \in ContributingSun : ~LacksSunHours(r)

\* ───────────────────────── properties: fan-out and fan-in ─────────────────
\* the operation has just issued its queries in the blended mode
FanOut == ipc = "idle" /\ ipc' = "all"
\* the operation resumes after Promise.all
FanIn == ipc = "all" /\ ipc' = "done"

C23_Step ==
  /\ FanOut => /\ queried' = nearestList'
               /\ Len(results') = Len(queried')
               /\ \A i \in DOMAIN results' : ~results'[i].settled
  /\ FanIn => /\ \A i \in DOMAIN queried : results[i].settled
              /\ { completed[k] : k \in DOMAIN completed } = DOMAIN queried

\* C23: in the blended mode both operations launch the queries of all the (up
\* to 3) nearest stations before waiting for any of them, resume only when
\* every query has settled, and return a result that is a function of which
\* stations returned data and of their values, whatever the order in which
\* the queries completed.
C23_FanOutFanIn ==
  /\ [][C23_Step]_vars
  /\ []((ipc = "done" /\ Len(queried) >= 2) => C14_Cases)

\* three queries completed in the order 3, 1, 2, each with its own
\* temperature, and were blended
C23_Witness ==
  /\ ipc = "done" /\ iop = "weather"
  /\ completed = <<3, 1, 2>>
  /\ ReturnedQueries = {1, 2, 3}
  /\ results[1].weather.data.temperature = Whole(20)
  /\ results[2].weather.data.temperature = Whole(22)
  /\ results[3].weather.data.temperature = Whole(24)
  /\ interpolated.kind = "data" /\ ~interpolated.isSingleStation

\* ───────────────────────── properties: retries of the batch fetcher ───────
\* the errors that report HTTP 429, 500 or 503
HttpRetryable ==
  { <<"A", "E", "M", "E", "T", " ", "A", "P", "I", " ", "e", "r", "r", "o", "r", ":", " ", "4", "2", "9", " ", "T", "o", "o", " ", "M", "a", "n", "y", " ", "R", "e", "q", "u", "e", "s", "t", "s">>,
    <<"A", "E", "M", "E", "T", " ", "A", "P", "I", " ", "e", "r", "r", "o", "r", ":", " ", "5", "0", "0", " ", "I", "n", "t", "e", "r", "n", "a", "l", " ", "S", "e", "r", "v", "e", "r", " ", "E", "r", "r", "o", "r">>,
    <<"A", "E", "M", "E", "T", " ", "A", "P", "I", " ", "e", "r", "r", "o", "r", ":", " ", "5", "0", "3", " ", "S", "e", "r", "v", "i", "c", "e", " ", "U", "n", "a", "v", "a", "i", "l", "a", "b", "l", "e">>,
    <<"F", "a", "i", "l", "e", "d", " ", "t", "o", " ", "f", "e", "t", "c", "h", " ", "d", "a", "t", "a", ":", " ", "5", "0", "0">> }

AttemptsBounded ==
  /\ Len(attempts) <= 4
  /\ \A k \in DOMAIN attempts :
       IF k = 1
       THEN attempts[k].waited = 0
       ELSE attempts[k].waited = 30000 /\ attempts[k].after \in HttpRetryable

\* a request or the processing of one attempt ends with an error
AttemptFails == rpc \in {"dataUrl", "data"} /\ fetchResult'.error # << >>

C26_Step ==
  /\ AttemptFails =>
       /\ attempts' = attempts
       /\ IF fetchResult'.error \in HttpRetryable /\ Len(attempts) < 4
          THEN rpc' = "retrySleep" /\ fetchResult'.kind = "pending"
          ELSE rpc' = "done" /\ fetchResult'.kind = "failure"
  /\ Len(attempts') > Len(attempts) /\ attempts # << >> => rpc = "retrySleep"

\* C26: fetchPeriodData ends after at most 4 attempts for one period: a further
\* attempt is made only after an error that reports HTTP 429, 500 or 503 and
\* after a wait of 30 seconds, and any other error, or such an error on the
\* fourth attempt, ends the period with a failure result
C26_Retries ==
  /\ [](AttemptsBounded)
  /\ [][C26_Step]_vars
  /\ (rpc \notin {"idle", "done"}) ~> (rpc = "done")

C26_Witness ==
  /\ rpc = "done"
  /\ Len(attempts) = 4
  /\ fetchResult.kind = "failure"
  /\ fetchResult.error \in HttpRetryable

\* ───────────────────────── properties: interpolation of missing means ─────
\* the record of the input with the given date
InputOn(date) == CHOOSE r \in {allData[k] : k \in DOMAIN allData} : r.date = date

\* the records of the input with an observed mean before and after a date
ObservedBefore(date) ==
  {r \in {allData[k] : k \in DOMAIN allData} : r.date < date /\ r.tavg # Null}
ObservedAfter(date) ==
  {r \in {allData[k] : k \in DOMAIN allData} : r.date > date /\ r.tavg # Null}
NearestBefore(date) ==
  CHOOSE r \in ObservedBefore(date) : \A q \in ObservedBefore(date) : q.date <= r.date
NearestAfter(date) ==
  CHOOSE r \in ObservedAfter(date) : \A q \in ObservedAfter(date) : r.date <= q.date

Distance(a, b) == IF a >= b THEN a - b ELSE b - a

\* v is num / den tenths up to the rounding to one decimal
RoundingOf(v, num, den) == v.t = "number" /\ 2 * Distance(v.n * den, num) <= den

\* the mean the record of the result on a date is to carry
MeanAsStated(out) ==
  LET in == InputOn(out.date)
      p == NearestBefore(out.date)
      n == NearestAfter(out.date)
  IN  IF in.tavg # Null THEN out.tavg = in.tavg /\ ~out.is_interpolated
      ELSE IF ObservedBefore(out.date) # {} /\ ObservedAfter(out.date) # {}
        THEN /\ out.is_interpolated
             /\ RoundingOf(out.tavg, p.tavg.n * (n.date - p.date)
                                       + (n.tavg.n - p.tavg.n) * (out.date - p.date),
                           n.date - p.date)
      ELSE IF ObservedBefore(out.date) # {} THEN out.tavg = p.tavg /\ out.is_interpolated
      ELSE IF ObservedAfter(out.date) # {} THEN out.tavg = n.tavg /\ out.is_interpolated
      ELSE IF in.tmax # Null /\ in.tmin # Null
        THEN out.is_interpolated /\ RoundingOf(out.tavg, in.tmax.n + in.tmin.n, 2)
      ELSE out.tavg = Null /\ ~out.is_interpolated

\* C25: interpolateMissingTemperatures returns the records in order of date and
\* gives each record without a mean the linear interpolation by calendar
\* position between the nearest records with an observed mean before and after
\* it, the value of the only such neighbour, the midpoint of its own tmax and
\* tmin, or null, flagging every value it made; observed means stay as they are
C25_Interpolation ==
  interpolatedData # << >> =>
    /\ Len(interpolatedData) = Len(allData)
    /\ \A k \in 1..(Len(interpolatedData) - 1) :
         interpolatedData[k].date < interpolatedData[k + 1].date
    /\ \A k \in DOMAIN interpolatedData :
         /\ \E j \in DOMAIN allData : allData[j].date = interpolatedData[k].date
         /\ interpolatedData[k].tmax = InputOn(interpolatedData[k].date).tmax
         /\ interpolatedData[k].tmin = InputOn(interpolatedData[k].date).tmin
         /\ MeanAsStated(interpolatedData[k])

\* ───────────────────────── properties: the analytics queue ────────────────
Queued(e) == \E k \in DOMAIN eventQueue : eventQueue[k] = e

\* a non-empty queue at rest has a pending flush timer
QueueCovered ==
  (eventQueue # << >> /\ tracking = 0 /\ inserting = 0) => flushTimer = "pending"

\* no event is handed to two batches, and a queued event to none so far
HandedOnce ==
  \A e \in Events :
    /\ handed[e] <= 1
    /\ Queued(e) => handed[e] = 0
    /\ e > pushed => ~Queued(e) /\ handed[e] = 0

\* a call that leaves the wait for the session id puts a new event into the
\* queue or a batch, and an event leaves the queue into a batch only
LeavesIntoBatch ==
  /\ tracking' < tracking =>
       /\ pushed' = pushed + 1
       /\ \/ \E k \in DOMAIN eventQueue' : eventQueue'[k] = pushed + 1
          \/ handed'[pushed + 1] = 1
  /\ \A e \in Events : (Queued(e) /\ ~Queued(e)') => handed'[e] = 1

\* C30: whenever the queue is non-empty and no trackSearchEvent or flush is in
\* progress a flush timer is pending; an event leaves the queue only into a
\* batch and no event is handed to two batches; and time and again no event
\* waits, so every event trackSearchEvent was called for is eventually handed
\* to exactly one flush batch
C30_NoStrandedEvent ==
  /\ [](QueueCovered /\ HandedOnce)
  /\ [][LeavesIntoBatch]_vars
  /\ []<>(tracking = 0 /\ eventQueue = << >>)

\* after a flush a further event waits in the queue with the timer armed again
C30_Witness ==
  /\ \E e \in Events : handed[e] = 1
  /\ eventQueue # << >>
  /\ tracking = 0
  /\ inserting = 0
  /\ flushTimer = "pending"

\* ───────────────────────── properties: loads of the result screen ─────────
\* at most one fetchLiveWeather call of the station waits for the network
OneInFlight == Cardinality(inFlight) <= 1

\* the tier-1 entry is replaced only by a call that started after its writer
NoLostUpdate == rateLimit' # rateLimit => rateLimit'.writer > rateLimit.writer

\* C22: the initial load, the periodic refresh and the pull-to-refresh of the
\* result screen never have two fetchLiveWeather calls for the station in
\* flight at once, and the tier-1 entry written by a call is never overwritten
\* by a call that started before it
C22_NoOverlap == [](OneInFlight) /\ [][NoLostUpdate]_vars

\* ───────────────────────── properties: termination of fetchLiveWeather ────
\* a network attempt, the reading of the body included, is over 10 seconds
\* after it started
AttemptBounded == stage \in FetchStages \cup BodyStages => elapsed <= 10000

\* a stage that ends without a snapshot hands over to the next stage, and the
\* call returns one of the three results
StageHandsOver ==
  /\ (stage \in PrimaryStages /\ stage' \notin PrimaryStages \cup {"saving"})
       => stage' = "openMeteoFetch"
  /\ (stage \in {"openMeteoFetch", "openMeteoBody"}
        /\ stage' \notin {"openMeteoFetch", "openMeteoBody", "saving"})
       => stage' \in {"cacheRead", "done"}
  /\ (stage # "done" /\ stage' = "done")
       => returned' \in {"fresh", "cached", "unavailable"}

Pending == stage \notin {"idle", "done"}

\* C24: every fetchLiveWeather call ends with a fresh snapshot, a cached
\* snapshot or the unavailable result: each network attempt, the reading of
\* the body included, settles or is aborted 10 seconds after it started, a
\* failed attempt fails its stage only, and the next stage takes over
C24_Terminates ==
  /\ [](AttemptBounded)
  /\ [][StageHandsOver]_vars
  /\ Pending ~> (stage = "done")

====
